---- MODULE Spec2Model ----
(***************************************************************************)
(* Model of the SQL connection pool manager of lib/dbSync.js (the section  *)
(* headed "lib/sql.js (ESM)"): buildConfig, getSqlAccessToken,             *)
(* connectWithRetry, getSqlPool and closeSqlPool, together with the        *)
(* callers that await the promises getSqlPool hands out.                   *)
(*                                                                         *)
(* A connection cycle is one call of connectWithRetry plus the .then and   *)
(* .catch handlers getSqlPool chains to it.  Cycles are numbered in the    *)
(* order they are started; the pool a cycle connects carries the cycle's   *)
(* number as its handle.  Every await of the code is a separate step, so   *)
(* that calls, completions, health changes and closes interleave freely.   *)
(***************************************************************************)
EXTENDS Integers, Naturals, Sequences, FiniteSets, Bags, TLC

\* ---------------------------------------------------------------- bounds
MaxCycles == 2      \* connection cycles one behaviour may start
MaxCallers == 2     \* concurrent callers of getSqlPool
MaxClosers == 1     \* concurrent callers of closeSqlPool
MaxExecutors == 1   \* concurrent callers of healthProbe, whoAmI, query and exec
MaxIdentity == 3    \* IDENTITY values the table may hand out
MaxVerifies == 2    \* concurrent verifyEmail calls
MaxTokenCalls == 2  \* concurrent getSqlPool calls of the token-only lib/sql.js
MaxTokenPools == 3  \* pools the token-only lib/sql.js opens
MaxRacers == 2      \* insertEmailPass calls that run at the same time
MaxKvCalls == 2     \* concurrent getSqlPool calls of config/azureConfig.js
MaxSessions == 2    \* browser sessions, each with one request in flight
MaxFetches == 2     \* /validate-phone requests one page has in flight

\* ------------------------------------------------------ program constants
maxAttempts == 4    \* connectWithRetry(4)
BackoffStep == 5000
BackoffCap == 15000
retries == 5
SecretsBackoffStep == 2000
SecretsBackoffCap == 10000
KvRetries == 3
KvDelay == 2000
MinDigits == 10

Cycles == 1..MaxCycles

\* ------------------------------------------------------------------ state
VARIABLES
  IS_APP_SERVICE,           \* !!process.env.WEBSITE_SITE_NAME
  USER_ASSIGNED_CLIENT_ID,  \* process.env.AZURE_CLIENT_ID ("undefined" when unset)
  SQL_FORCE_ACCESS_TOKEN,   \* process.env.SQL_FORCE_ACCESS_TOKEN === '1'
  _pool,                    \* stored pool handle, 0 for null
  _connectingPromise,       \* cycle whose promise is stored, 0 for null
  nextCycle,                \* number the next cycle gets
  cycles,                   \* per cycle: the frame of connectWithRetry
  promise,                  \* per cycle: the promise getSqlPool stored for it
  connected,                \* per pool: pool.connected
  closeCalled,              \* the pools close() has been invoked on
  callers,                  \* the callers inside "await getSqlPool()", as a bag
  closers,                  \* the closeSqlPool calls awaiting close(), as a bag of pools
  closeResolved,            \* a closeSqlPool call resolved and getSqlPool was not called since
  closeObserved,            \* whether closeResolved is being recorded
  table,                    \* the rows of dbo.volunteer_in
  nextId,                   \* the next IDENTITY value of the table
  dbCall,                   \* the data-access call in progress
  created,                  \* the emails insertEmailPass has returned a created row for
  request,                  \* the HTTP request being handled
  handler,                  \* where its route handler stands, and what it last awaited
  response,                 \* the response sent for it
  session,                  \* req.session.userId ("undefined" when unset)
  isProd,                   \* process.env.NODE_ENV === 'production'
  KICKBOX_API_KEY,          \* process.env.KICKBOX_API_KEY ("undefined" when unset)
  verifying,                 \* per verifyEmail call: its frame, its timer, its controller
  processEnv,               \* process.env: AZSQLServer, AZSQLDB, AZSQLPort
  sqlModule,                \* lib/sql.js: how far it loaded, and its constants
  boot,                     \* the startup function of index.js
  sqlJs,                    \* the token-only lib/sql.js: its _pool and its getSqlPool calls
  race,                     \* the insertEmailPass calls running on connections of their own
  kv,                       \* config/azureConfig.js: its pool and its getSqlPool calls
  web,                      \* the sessions of the browsers and the request each has in flight
  form                      \* the phone form page: its fields, gates, timer and fetches

envVars == <<IS_APP_SERVICE, USER_ASSIGNED_CLIENT_ID, SQL_FORCE_ACCESS_TOKEN, closeObserved>>
mgrVars == <<_pool, _connectingPromise, nextCycle, cycles, promise>>
vars == <<IS_APP_SERVICE, USER_ASSIGNED_CLIENT_ID, SQL_FORCE_ACCESS_TOKEN,
          _pool, _connectingPromise, nextCycle, cycles, promise, connected,
          closeCalled, callers, closers, closeResolved, closeObserved,
          table, nextId, dbCall, created, request, handler, response,
          session, isProd, KICKBOX_API_KEY, verifying,
          processEnv, sqlModule, boot, sqlJs, race, kv, web, form>>
dbVars == <<table, nextId, dbCall, created>>
httpVars == <<request, handler, response, session, isProd>>
verifyVars == <<KICKBOX_API_KEY, verifying>>
bootVars == <<processEnv, sqlModule, boot>>
tokenOnlyVars == <<sqlJs>>
restVars == <<race, kv, web, form>>
appVars == <<dbVars, httpVars, verifyVars, bootVars, tokenOnlyVars, restVars>>
poolVars == <<envVars, mgrVars, connected, closeCalled, callers, closers, closeResolved>>
exceptTokenOnly == <<poolVars, dbVars, httpVars, verifyVars, bootVars, restVars>>
exceptDb == <<poolVars, httpVars, verifyVars, bootVars, tokenOnlyVars, restVars>>
exceptHttp == <<poolVars, dbVars, verifyVars, bootVars, tokenOnlyVars, restVars>>
exceptVerify == <<poolVars, dbVars, httpVars, bootVars, tokenOnlyVars, restVars>>

\* ---------------------------------------------------------- error values
Undefined == "undefined"

\* What credential.getToken or pool.connect can fail with: err.code,
\* err.originalError.code and err.message.
ErrorShapes ==
  { [code |-> "ETIMEDOUT", ocode |-> Undefined, message |-> "Failed to connect in 30000ms"],
    [code |-> Undefined,   ocode |-> Undefined, message |-> "Socket Hang Up"],
    [code |-> "ELOGIN",    ocode |-> Undefined, message |-> "Login failed for user"] }

NoTokenMessage == "No access token returned for https://database.windows.net/.default"

NoErr == [code |-> Undefined, ocode |-> Undefined, message |-> "", cyc |-> 0, att |-> 0]

\* The error object thrown in attempt att of cycle c: error objects are told
\* apart by the attempt that raised them.
Raised(shape, c, att) ==
  [code |-> shape.code, ocode |-> shape.ocode, message |-> shape.message,
   cyc |-> c, att |-> att]

\* A JavaScript value is truthy unless it is undefined or the empty string.
Truthy(v) == v # Undefined /\ v # ""

TRANSIENT_CODES == {"ESOCKET", "ECONNRESET", "ETIMEDOUT", "ETIME"}

UpperLetters == "ABCDEFGHIJKLMNOPQRSTUVWXYZ"
LowerLetters == "abcdefghijklmnopqrstuvwxyz"

CharAt(s, i) == SubSeq(s, i, i)

\* Each upper-case letter's lower-case form.
LowerOf ==
  [ch \in {CharAt(UpperLetters, i) : i \in 1..26} |->
     CharAt(LowerLetters, CHOOSE i \in 1..26 : CharAt(UpperLetters, i) = ch)]

LowerCase(ch) == IF ch \in DOMAIN LowerOf THEN LowerOf[ch] ELSE ch

MatchesSocketHangUp_CaseSensitive(message) ==
  LET pat == "socket hang up" IN
  \E i \in 1..(Len(message) - Len(pat) + 1) :
    SubSeq(message, i, i + Len(pat) - 1) = pat

\* /socket hang up/i.test(message)
MatchesSocketHangUp(message) ==
  LET pat == "socket hang up" IN
  \E i \in 1..(Len(message) - Len(pat) + 1) :
    \A j \in 1..Len(pat) :
      LowerCase(CharAt(message, i + j - 1)) = CharAt(pat, j)

\* const code = err?.code || err?.originalError?.code
ErrCode(err) == IF Truthy(err.code) THEN err.code ELSE err.ocode

\* const message = err?.message || String(err): an Error without a message
\* prints as its name (the driver's and the credential's are class names).
ErrMessage(err) == IF Truthy(err.message) THEN err.message ELSE "ConnectionError"

isTransient(err) ==
  ErrCode(err) \in TRANSIENT_CODES \/ MatchesSocketHangUp(ErrMessage(err))


\* ------------------------------------------------------- module constants
\* What process.env holds after "process.env.X = v": the value as text.
StoredText(v) == IF v = Undefined THEN "'undefined'" ELSE v

DigitOf ==
  ("0" :> 0) @@ ("1" :> 1) @@ ("2" :> 2) @@ ("3" :> 3) @@ ("4" :> 4) @@
  ("5" :> 5) @@ ("6" :> 6) @@ ("7" :> 7) @@ ("8" :> 8) @@ ("9" :> 9)

IsDigits(s) == Len(s) > 0 /\ \A i \in 1..Len(s) : CharAt(s, i) \in DOMAIN DigitOf

RECURSIVE DigitsValue(_, _)
DigitsValue(s, n) ==
  IF n = 0 THEN 0 ELSE 10 * DigitsValue(s, n - 1) + DigitOf[CharAt(s, n)]

\* JavaScript numbers: a finite value, NaN, or an infinity.
Finite(n) == [kind |-> "finite", value |-> n]
NaN == [kind |-> "NaN", value |-> 0]
Infinity(sign) == [kind |-> "Infinity", value |-> sign]
Negated(x) == [x EXCEPT !.value = 0 - @]

\* Number(text) for text without blanks, fraction, exponent or radix prefix.
UnsignedNumber(s) ==
  IF s = "Infinity" THEN Infinity(1)
  ELSE IF IsDigits(s) THEN Finite(DigitsValue(s, Len(s)))
  ELSE NaN

Number(s) ==
  IF s = "" THEN Finite(0)
  ELSE IF CharAt(s, 1) = "-" THEN Negated(UnsignedNumber(SubSeq(s, 2, Len(s))))
  ELSE IF CharAt(s, 1) = "+" THEN UnsignedNumber(SubSeq(s, 2, Len(s)))
  ELSE UnsignedNumber(s)

isFinite(x) == x.kind = "finite"

\* String.prototype.includes
includes(s, part) ==
  \E i \in 1..(Len(s) - Len(part) + 1) : SubSeq(s, i, i + Len(part) - 1) = part

DefaultPort == 1433

\* The constants lib/sql.js reads from process.env when its body runs.
ModuleConstants(env) ==
  [SQL_SERVER |-> env.AZSQLServer,
   SQL_DATABASE |-> env.AZSQLDB,
   SQL_PORT |-> IF env.AZSQLPort = Undefined THEN Finite(DefaultPort)
                ELSE Number(env.AZSQLPort)]

SanityChecks_SkipPort(m) ==
  /\ Truthy(m.SQL_SERVER) /\ includes(m.SQL_SERVER, ".database.windows.net")
  /\ Truthy(m.SQL_DATABASE)

\* The sanity checks of lib/sql.js: TRUE when none of them throws.
SanityChecks(m) ==
  /\ Truthy(m.SQL_SERVER) /\ includes(m.SQL_SERVER, ".database.windows.net")
  /\ Truthy(m.SQL_DATABASE)
  /\ isFinite(m.SQL_PORT) /\ m.SQL_PORT.value > 0

NotImported ==
  [state |-> "none", SQL_SERVER |-> Undefined, SQL_DATABASE |-> Undefined,
   SQL_PORT |-> NaN]

\* lib/sql.js after its body ran over env: loaded, or failed at a throw.
Imported(env) ==
  LET m == ModuleConstants(env) IN
    [state |-> IF SanityChecks(m) THEN "loaded" ELSE "failed",
     SQL_SERVER |-> m.SQL_SERVER, SQL_DATABASE |-> m.SQL_DATABASE,
     SQL_PORT |-> m.SQL_PORT]

\* server, database and port of the object buildConfig returns.
Connection ==
  [server |-> sqlModule.SQL_SERVER, database |-> sqlModule.SQL_DATABASE,
   port |-> sqlModule.SQL_PORT]


\* ------------------------------------------------------------ buildConfig
NoOptions == [k \in {} |-> ""]
NoConfig == [type |-> "none", options |-> NoOptions]
NoToken == [val |-> Undefined, cyc |-> 0, att |-> 0]

\* buildConfig reaches "await getSqlAccessToken()" only in its last branch.
BuildConfigAwaitsToken == ~IS_APP_SERVICE /\ SQL_FORCE_ACCESS_TOKEN

buildConfig_ForceFirst(token) ==
  LET authentication ==
      IF SQL_FORCE_ACCESS_TOKEN
        THEN [type |-> "azure-active-directory-access-token",
              options |-> [token |-> token]]
        ELSE IF IS_APP_SERVICE
          THEN [type |-> "azure-active-directory-msi-app-service",
                options |-> IF Truthy(USER_ASSIGNED_CLIENT_ID)
                              THEN [clientId |-> USER_ASSIGNED_CLIENT_ID]
                              ELSE NoOptions]
          ELSE [type |-> "token-credential",
                options |-> [credential |-> "DefaultAzureCredential"]]
  IN [server |-> Connection.server, database |-> Connection.database,
      port |-> Connection.port,
      type |-> authentication.type, options |-> authentication.options]

\* The configuration buildConfig returns: server, database and port with the
\* type and options of its authentication descriptor; token is what
\* getSqlAccessToken returned (read in the last branch only).
buildConfig(token) ==
  LET authentication ==
      IF IS_APP_SERVICE
        THEN [type |-> "azure-active-directory-msi-app-service",
              options |-> IF Truthy(USER_ASSIGNED_CLIENT_ID)
                            THEN [clientId |-> USER_ASSIGNED_CLIENT_ID]
                            ELSE NoOptions]
        ELSE IF ~SQL_FORCE_ACCESS_TOKEN
          THEN [type |-> "token-credential",
                options |-> [credential |-> "DefaultAzureCredential"]]
          ELSE [type |-> "azure-active-directory-access-token",
                options |-> [token |-> token]]
  IN [server |-> Connection.server, database |-> Connection.database,
      port |-> Connection.port,
      type |-> authentication.type, options |-> authentication.options]

TokenMissing_Never(tok) == FALSE

\* getSqlAccessToken after credential.getToken resolved with tok:
\* const token = tok?.token; if (!token) throw new Error('No access token ...')
TokenMissing(tok) == ~Truthy(tok.val)

NoTokenShape == [code |-> Undefined, ocode |-> Undefined, message |-> NoTokenMessage]

\* What credential.getToken may resolve with in attempt att of cycle c: a token
\* issued for this very call, an object without a token, or nothing.
ProviderAnswers(c, att) ==
  { [val |-> "jwt", cyc |-> c, att |-> att],
    [val |-> "", cyc |-> c, att |-> att],
    [val |-> Undefined, cyc |-> c, att |-> att] }

\* ------------------------------------------------------- connectWithRetry
\* The frame of one connectWithRetry call.  pc is the await it is suspended in
\* ("token", "connect", "backoff"), or "resolved"/"threw" once it has returned
\* or thrown and the handler getSqlPool chained has not run yet.  attempt,
\* lastErr and config are the function's locals; delay is the timer's delay.
\* nFetch, nConnect, nWait and nTokFail count the getToken calls, the
\* pool.connect() calls, the backoff waits and the attempts that failed before
\* pool.connect(); allTransient says that no failure so far was non-transient.
NoCycle ==
  [pc |-> "none", attempt |-> 0, lastErr |-> NoErr, config |-> NoConfig,
   delay |-> 0, nFetch |-> 0, nConnect |-> 0, nWait |-> 0, nTokFail |-> 0,
   allTransient |-> TRUE]

\* The frame of a connectWithRetry call whose outcome the handler has consumed.
Returned == [NoCycle EXCEPT !.pc = "done"]

Min_PicksLarger(a, b) == IF a < b THEN b ELSE a

Min(a, b) == IF a < b THEN a ELSE b

StartAttempt_ReusesToken(f) ==
  IF BuildConfigAwaitsToken /\ f.attempt = 0
    THEN [f EXCEPT !.attempt = @ + 1, !.pc = "token", !.nFetch = @ + 1]
    ELSE [f EXCEPT !.attempt = @ + 1, !.pc = "connect",
                   !.config = buildConfig([val |-> "jwt", cyc |-> f.lastErr.cyc, att |-> 1]),
                   !.nConnect = @ + 1]

StartAttempt_AlwaysFetches(f) ==
  [f EXCEPT !.attempt = @ + 1, !.pc = "token", !.nFetch = @ + 1]

\* attempt++ and the try block up to its first suspension: the token fetch in
\* explicit-token mode, pool.connect() otherwise.
StartAttempt(f) ==
  IF BuildConfigAwaitsToken
    THEN [f EXCEPT !.attempt = @ + 1, !.pc = "token", !.nFetch = @ + 1]
    ELSE [f EXCEPT !.attempt = @ + 1, !.pc = "connect",
                   !.config = buildConfig(NoToken), !.nConnect = @ + 1]

LoopTop_OneMore(f) ==
  IF f.attempt <= maxAttempts
    THEN StartAttempt(f)
    ELSE [f EXCEPT !.pc = "threw", !.delay = 0]

\* while (attempt < maxAttempts) { ... }  throw lastErr;
LoopTop(f) ==
  IF f.attempt < maxAttempts
    THEN StartAttempt(f)
    ELSE [f EXCEPT !.pc = "threw", !.delay = 0]

CatchAttempt_AlwaysRetries(f, err) ==
  [f EXCEPT !.lastErr = err, !.config = NoConfig,
            !.nTokFail = IF f.pc = "token" THEN @ + 1 ELSE @,
            !.allTransient = @ /\ isTransient(err),
            !.pc = "backoff",
            !.delay = Min(BackoffStep * f.attempt, BackoffCap),
            !.nWait = @ + 1]

\* The catch block of the attempt, entered with err from the stage the frame is
\* suspended in: break when err is not transient, else the backoff timer.
CatchAttempt(f, err) ==
  LET g == [f EXCEPT !.lastErr = err, !.config = NoConfig,
                     !.nTokFail = IF f.pc = "token" THEN @ + 1 ELSE @]
  IN IF ~isTransient(err)
       THEN [g EXCEPT !.pc = "threw", !.allTransient = FALSE]
       ELSE [g EXCEPT !.pc = "backoff",
                      !.delay = Min(BackoffStep * f.attempt, BackoffCap),
                      !.nWait = @ + 1]

connectWithRetry_SharedAttempts == LoopTop([NoCycle EXCEPT !.attempt = nextCycle - 1])

\* connectWithRetry(4) up to its first suspension.
connectWithRetry == LoopTop(NoCycle)

\* -------------------------------------------------------------- promises
Pending == [state |-> "pending", pool |-> 0, err |-> NoErr]
Fulfilled(p) == [state |-> "fulfilled", pool |-> p, err |-> NoErr]
Rejected(e) == [state |-> "rejected", pool |-> 0, err |-> e]

\* A promise nothing refers to any more.
Released == [state |-> "released", pool |-> 0, err |-> NoErr]

\* A caller inside "await getSqlPool()": the cycle whose promise getSqlPool
\* returned to it (0: an already fulfilled one) and, once it resumed, what the
\* await yielded.  Callers that are not inside a call are not in the bag.
\* op is the exported function the caller runs, bind what it passes as
\* bindParamsFn; execs counts the req.query() calls it made, thrown is the error
\* raised inside it and outcome what its own promise settled with.
NotSettled == [state |-> "pending", err |-> NoErr]
Returns == [state |-> "returned", err |-> NoErr]
Throws(e) == [state |-> "threw", err |-> e]

AwaitingIn(op, bind, c, p) ==
  [op |-> op, bind |-> bind, pc |-> "awaiting", awaits |-> c,
   got |-> IF c = 0 THEN Fulfilled(p) ELSE Pending,
   execs |-> 0, thrown |-> NoErr, outcome |-> NotSettled]

Awaiting(c, p) == AwaitingIn("getSqlPool", "none", c, p)
ActiveCallers == BagToSet(callers)

\* No data-access call in progress.
NoCall == [fn |-> "none"]

\* No request being handled: no handler running, nothing sent.
NoRequest ==
  [route |-> "none", email |-> Undefined, password |-> Undefined, phone |-> Undefined]
NotRunning == [pc |-> "idle", cause |-> "none"]
NoResponse == [status |-> 0, fixed |-> "", detail |-> ""]

\* Every environment the module can be loaded in.
Environments ==
  [hosted : BOOLEAN, clientId : {Undefined, "", "11111111-aaaa"}, force : BOOLEAN]

\* The environments the interleavings are explored in: each authentication
\* branch of buildConfig, each flag both ways.
PoolEnvironments ==
  { [hosted |-> TRUE,  clientId |-> "11111111-aaaa", force |-> FALSE],
    [hosted |-> FALSE, clientId |-> Undefined,       force |-> FALSE],
    [hosted |-> FALSE, clientId |-> "11111111-aaaa", force |-> TRUE] }

\* No verifyEmail call in this slot.
NoError == [name |-> "", message |-> ""]
NotVerifying ==
  [pc |-> "idle", email |-> Undefined, timer |-> "none", aborted |-> FALSE,
   outcome |-> NoError]

\* The pool manager of a module just loaded in environment env; observed says
\* whether the history of closeSqlPool is recorded.
InitPool(env, observed) ==
  /\ IS_APP_SERVICE = env.hosted
  /\ USER_ASSIGNED_CLIENT_ID = env.clientId
  /\ SQL_FORCE_ACCESS_TOKEN = env.force
  /\ _pool = 0
  /\ _connectingPromise = 0
  /\ nextCycle = 1
  /\ cycles = [c \in Cycles |-> NoCycle]
  /\ promise = [c \in Cycles |-> Pending]
  /\ connected = [c \in Cycles |-> FALSE]
  /\ closeCalled = {}
  /\ callers = EmptyBag
  /\ closers = EmptyBag
  /\ closeResolved = FALSE
  /\ closeObserved = observed

InitManager(env) == InitPool(env, FALSE)

\* An empty table and no data-access call.
InitData ==
  /\ table = {}
  /\ nextId = 1
  /\ dbCall = NoCall
  /\ created = {}

\* No request being handled, no session yet.
InitRoutes(production) ==
  /\ isProd = production
  /\ request = NoRequest
  /\ handler = NotRunning
  /\ response = NoResponse
  /\ session = Undefined

\* No verifyEmail call running.
InitKickbox(key) ==
  /\ KICKBOX_API_KEY = key
  /\ verifying = [v \in 1..MaxVerifies |-> NotVerifying]

\* process.env after the secrets were stored, as the deployment sets it.
DeployedEnv ==
  [AZSQLServer |-> "albanyregional.database.windows.net",
   AZSQLDB |-> "volunteers", AZSQLPort |-> Undefined]

\* attempt counts the rounds of loadSecrets that failed, delay is the timer
\* it waits on.
Booting(pc) == [pc |-> pc, listening |-> FALSE, attempt |-> 0, delay |-> 0]
Listening == [pc |-> "running", listening |-> TRUE, attempt |-> 0, delay |-> 0]

\* The server after a startup that went through.
InitStarted ==
  /\ processEnv = DeployedEnv
  /\ sqlModule = Imported(DeployedEnv)
  /\ boot = Listening

\* The token-only module just loaded: no pool stored, no call running.
NotCalled == [pc |-> "idle", seen |-> 0, got |-> 0]
InitTokenOnly ==
  sqlJs = [_pool |-> 0, connected |-> {}, nextPool |-> 1,
           calls |-> [i \in 1..MaxTokenCalls |-> NotCalled]]

\* No getSqlPool call of config/azureConfig.js in slot i.  mode is the
\* authentication being tried, attempt the loop variable of connectWithRetry,
\* nAad and nSql count the sql.connect() calls made with each configuration.
KvIdle ==
  [pc |-> "idle", mode |-> "none", attempt |-> 0, delay |-> 0,
   nAad |-> 0, nSql |-> 0, tokenFailed |-> FALSE, got |-> 0]

\* No request of session b in flight.  userId is what the handler read from
\* req.session, settled what the statement it awaits settled with, status the
\* status of the response, stmts the statements run for the request, dup
\* whether namePhoneExists reported a record, updated whether the UPDATE ran.
\* req.session.userId when it was never set (any falsy value is answered 400),
\* and a statement that has not run.
NoUserId == 0
NotRun == [kind |-> "none", hasRecordset |-> FALSE, recordset |-> << >>]

NoExchange ==
  [route |-> "none", pc |-> "idle", userId |-> NoUserId, body |-> Undefined,
   settled |-> NotRun, status |-> 0, stmts |-> 0, dup |-> FALSE,
   updated |-> FALSE]

\* No insertEmailPass call on connection i.
NotRacing == [fn |-> "none", pc |-> "idle"]

\* No debounce timer is pending.
NoTimer == [pending |-> FALSE, raw |-> ""]

\* Nothing was posted to /submit-phoneVer.
NotPosted == [sent |-> FALSE, phone |-> ""]

\* No fetchPhoneNumber call: pc is where a call stands, aborted whether its
\* controller was aborted, ok the res.ok of its response.
NoFetch == [pc |-> "none", requestedPhone |-> "", aborted |-> FALSE, ok |-> FALSE]

\* The phone form page before its script has run.
NoPage == [loaded |-> FALSE, observed |-> FALSE]

\* The phone form page when its script starts.  others says whether the
\* name fields hold text and a radio button is checked; ignored says whether
\* the fetchPhoneNumber call that ended last returned at its stale check.
\* While observed is set, validated collects the values /validate-phone
\* answered valid for and posted holds the value last posted.
FormAtLoad ==
  [loaded |-> TRUE, observed |-> FALSE, phone |-> "", confirm |-> "", others |-> FALSE,
   phoneDeliverable |-> FALSE, phonesMatch |-> FALSE, confirmEnabled |-> FALSE,
   submitEnabled |-> FALSE, debounceId |-> NoTimer, inflightAbort |-> 0,
   fetches |-> [r \in 1..MaxFetches |-> NoFetch], validated |-> {},
   ignored |-> FALSE, posted |-> NotPosted]

\* The components that are explored on their own, at rest.
RaceAtRest == race = << >>
KvAtRest == kv = [pool |-> 0, calls |-> << >>]
\* No browser has a session.
NoSessions == [userId |-> << >>, reqs |-> << >>]

WebAtRest == web = NoSessions
FormAtRest == form = NoPage

InitRest == RaceAtRest /\ KvAtRest /\ WebAtRest /\ FormAtRest

\* The environment the components other than the pool manager are explored in.
HostedEnvironment == [hosted |-> TRUE, clientId |-> "11111111-aaaa", force |-> FALSE]

\* The state after start-up in environment env, NODE_ENV being production or not.
InitCore(env, production) ==
  /\ InitManager(env) /\ InitData /\ InitRoutes(production)
  /\ InitKickbox("test_0123456789") /\ InitStarted /\ InitTokenOnly

InitAs(env, production) == InitCore(env, production) /\ InitRest

InitIn(envs) == \E env \in envs : InitAs(env, TRUE)

Init == InitIn(PoolEnvironments)


\* ------------------------------------------------------------- getSqlPool
PoolUsable_Never == FALSE

\* if (_pool && _pool.connected) return _pool;
PoolUsable == _pool # 0 /\ connected[_pool]

\* if (_connectingPromise) return _connectingPromise;
AttemptInFlight_Ignored == FALSE

AttemptInFlight == _connectingPromise # 0

\* A caller running op calls getSqlPool(); the call runs to its return
\* statement and the caller awaits what it returned.
Acquire(op, bind) ==
  /\ BagCardinality(callers) < MaxCallers
  /\ IF PoolUsable
       THEN /\ callers' = callers (+) SetToBag({AwaitingIn(op, bind, 0, _pool)})
            /\ UNCHANGED <<_connectingPromise, nextCycle, cycles>>
       ELSE IF AttemptInFlight
         THEN /\ callers' = callers (+) SetToBag({AwaitingIn(op, bind, _connectingPromise, 0)})
              /\ UNCHANGED <<_connectingPromise, nextCycle, cycles>>
         ELSE /\ nextCycle <= MaxCycles
              /\ cycles' = [cycles EXCEPT ![nextCycle] = connectWithRetry]
              /\ _connectingPromise' = nextCycle
              /\ nextCycle' = nextCycle + 1
              /\ callers' = callers (+) SetToBag({AwaitingIn(op, bind, nextCycle, 0)})
  /\ closeResolved' = FALSE
  /\ UNCHANGED <<envVars, _pool, promise, connected, closeCalled, closers>>

getSqlPoolIn(op, bind) == Acquire(op, bind) /\ UNCHANGED appVars

\* getSqlPool() called for its own sake.
getSqlPool == getSqlPoolIn("getSqlPool", "none")

\* The value a caller's await yields once the promise it holds has settled.
Settlement(caller) ==
  IF caller.awaits = 0 THEN caller.got ELSE promise[caller.awaits]

\* "await getSqlPool()" resumes in caller k with the promise's outcome; a
\* settled promise no caller holds any more is released.
CallerResumes(k) ==
  /\ k \in ActiveCallers
  /\ k.op = "getSqlPool"
  /\ k.pc = "awaiting"
  /\ Settlement(k).state # "pending"
  /\ callers' = (callers (-) SetToBag({k}))
                  (+) SetToBag({[k EXCEPT !.pc = "done", !.got = Settlement(k)]})
  /\ promise' = [c \in Cycles |->
       IF c = k.awaits /\ \A o \in BagToSet(callers') :
                            ~(o.pc = "awaiting" /\ o.awaits = c)
         THEN Released ELSE promise[c]]
  /\ UNCHANGED <<appVars, envVars, closeResolved, _pool, _connectingPromise, nextCycle, cycles,
                 connected, closeCalled, closers>>

\* Caller k is finished with the outcome.
CallerReturns(k) ==
  /\ k \in ActiveCallers
  /\ k.pc = "done"
  /\ callers' = callers (-) SetToBag({k})
  /\ UNCHANGED <<appVars, envVars, closeResolved, mgrVars, connected, closeCalled, closers>>

\* ------------------------------------- healthProbe, whoAmI, query, exec
\* healthProbe and whoAmI run a fixed statement and bind nothing; query binds
\* with bindParamsFn when it is a function; exec returns rawQuery(...).
Probes == {"healthProbe", "whoAmI"}
Executors == {"query", "exec"}
BindFns == {"none", "binds", "throws"}

\* What bindParamsFn throws and what req.query() rejects with (a code that
\* connectWithRetry would call transient).
BindError ==
  [code |-> "EPARAM", ocode |-> Undefined, message |-> "Invalid parameter name",
   cyc |-> 0, att |-> 0]
RequestError ==
  [code |-> "ESOCKET", ocode |-> Undefined, message |-> "Connection lost",
   cyc |-> 0, att |-> 0]

\* A caller calls healthProbe(), whoAmI(), query(sqlText, bindParamsFn) or
\* exec(sqlText, bindParamsFn): each runs up to its "await getSqlPool()".
Invoke(op, bind) ==
  /\ BagCardinality(callers) < MaxExecutors
  /\ op \in Probes \cup Executors
  /\ bind \in (IF op \in Probes THEN {"none"} ELSE BindFns)
  /\ getSqlPoolIn(op, bind)

\* What the caller does with the outcome of "await getSqlPool()" up to its
\* next suspension, ignoring a throwing bindParamsFn.
AfterAcquire_IgnoresBindError(k, got) ==
  IF got.state = "rejected"
    THEN [k EXCEPT !.pc = "done", !.got = got, !.thrown = got.err,
                   !.outcome = Throws(got.err)]
    ELSE [k EXCEPT !.pc = "querying", !.got = got, !.execs = @ + 1]

\* const pool = await getSqlPool(); const req = pool.request();
\* bindParamsFn(req) (rethrown when it throws); req.query(sqlText) is issued.
AfterAcquire(k, got) ==
  IF got.state = "rejected"
    THEN [k EXCEPT !.pc = "done", !.got = got, !.thrown = got.err,
                   !.outcome = Throws(got.err)]
    ELSE IF k.bind = "throws"
      THEN [k EXCEPT !.pc = "done", !.got = got, !.thrown = BindError,
                     !.outcome = Throws(BindError)]
      ELSE [k EXCEPT !.pc = "querying", !.got = got, !.execs = @ + 1]

\* "await getSqlPool()" resumes in a caller that runs a statement.
ExecutorResumes(k) ==
  /\ k \in ActiveCallers
  /\ k.op # "getSqlPool"
  /\ k.pc = "awaiting"
  /\ Settlement(k).state # "pending"
  /\ callers' = (callers (-) SetToBag({k}))
                  (+) SetToBag({AfterAcquire(k, Settlement(k))})
  /\ promise' = [c \in Cycles |->
       IF c = k.awaits /\ \A o \in BagToSet(callers') :
                            ~(o.pc = "awaiting" /\ o.awaits = c)
         THEN Released ELSE promise[c]]
  /\ UNCHANGED <<appVars, envVars, closeResolved, _pool, _connectingPromise, nextCycle, cycles,
                 connected, closeCalled, closers>>

QuerySettles_DropsPool(k, ok) ==
  /\ k \in ActiveCallers
  /\ k.pc = "querying"
  /\ callers' = (callers (-) SetToBag({k})) (+) SetToBag({
       IF ok THEN [k EXCEPT !.pc = "done", !.outcome = Returns]
             ELSE [k EXCEPT !.pc = "done", !.thrown = RequestError,
                            !.outcome = Throws(RequestError)]})
  /\ _pool' = IF ok THEN _pool ELSE 0
  /\ UNCHANGED <<appVars, envVars, closeResolved, _connectingPromise, nextCycle, cycles,
                 promise, connected, closeCalled, closers>>

\* req.query() settled: the caller returns the result or the error propagates.
QuerySettles(k, ok) ==
  /\ k \in ActiveCallers
  /\ k.pc = "querying"
  /\ callers' = (callers (-) SetToBag({k})) (+) SetToBag({
       IF ok THEN [k EXCEPT !.pc = "done", !.outcome = Returns]
             ELSE [k EXCEPT !.pc = "done", !.thrown = RequestError,
                            !.outcome = Throws(RequestError)]})
  /\ UNCHANGED <<appVars, envVars, closeResolved, mgrVars, connected, closeCalled, closers>>

\* ----------------------------------------- the suspensions of a cycle
\* credential.getToken resolved; getSqlAccessToken returns the token or throws,
\* buildConfig returns and pool.connect() is issued.
TokenArrives(c) ==
  /\ cycles[c].pc = "token"
  /\ \E tok \in ProviderAnswers(c, cycles[c].attempt) :
       cycles' = [cycles EXCEPT ![c] =
         IF TokenMissing(tok)
           THEN CatchAttempt(@, Raised(NoTokenShape, c, @.attempt))
           ELSE [@ EXCEPT !.pc = "connect", !.config = buildConfig(tok),
                          !.nConnect = @ + 1]]
  /\ UNCHANGED <<appVars, envVars, closeResolved, _pool, _connectingPromise, nextCycle, promise,
                 connected, closeCalled, callers, closers>>

\* credential.getToken rejected.
TokenFails(c) ==
  /\ cycles[c].pc = "token"
  /\ \E shape \in ErrorShapes :
       cycles' = [cycles EXCEPT ![c] =
         CatchAttempt(@, Raised(shape, c, @.attempt))]
  /\ UNCHANGED <<appVars, envVars, closeResolved, _pool, _connectingPromise, nextCycle, promise,
                 connected, closeCalled, callers, closers>>

\* pool.connect() resolved: connectWithRetry returns the connected pool.
ConnectSucceeds(c) ==
  /\ cycles[c].pc = "connect"
  /\ cycles' = [cycles EXCEPT ![c].pc = "resolved", ![c].config = NoConfig]
  /\ connected' = [connected EXCEPT ![c] = TRUE]
  /\ UNCHANGED <<appVars, envVars, closeResolved, _pool, _connectingPromise, nextCycle, promise,
                 closeCalled, callers, closers>>

\* pool.connect() rejected with an error of the given shape.
ConnectFailsWith(c, shape) ==
  /\ cycles[c].pc = "connect"
  /\ cycles' = [cycles EXCEPT ![c] =
       CatchAttempt(@, Raised(shape, c, @.attempt))]
  /\ UNCHANGED <<appVars, envVars, closeResolved, _pool, _connectingPromise, nextCycle, promise,
                 connected, closeCalled, callers, closers>>

\* pool.connect() rejected.
ConnectFails(c) == \E shape \in ErrorShapes : ConnectFailsWith(c, shape)

\* The backoff timer fired: back to the loop condition.
BackoffElapses(c) ==
  /\ cycles[c].pc = "backoff"
  /\ cycles' = [cycles EXCEPT ![c] = LoopTop([@ EXCEPT !.delay = 0])]
  /\ UNCHANGED <<appVars, envVars, closeResolved, _pool, _connectingPromise, nextCycle, promise,
                 connected, closeCalled, callers, closers>>

ThenHandler_ReturnsNothing(c) ==
  /\ cycles[c].pc = "resolved"
  /\ _pool' = c
  /\ _connectingPromise' = 0
  /\ promise' = [promise EXCEPT ![c] = Fulfilled(0)]
  /\ cycles' = [cycles EXCEPT ![c] = Returned]
  /\ UNCHANGED <<appVars, envVars, closeResolved, nextCycle, connected, closeCalled, callers, closers>>

ThenHandler_KeepsMarker(c) ==
  /\ cycles[c].pc = "resolved"
  /\ _pool' = c
  /\ promise' = [promise EXCEPT ![c] = Fulfilled(_pool')]
  /\ cycles' = [cycles EXCEPT ![c] = Returned]
  /\ UNCHANGED <<appVars, envVars, closeResolved, _connectingPromise, nextCycle, connected,
                 closeCalled, callers, closers>>

\* .then((pool) => { _pool = pool; _connectingPromise = null; return _pool; })
ThenHandler(c) ==
  /\ cycles[c].pc = "resolved"
  /\ _pool' = c
  /\ _connectingPromise' = 0
  /\ promise' = [promise EXCEPT ![c] = Fulfilled(_pool')]
  /\ cycles' = [cycles EXCEPT ![c] = Returned]
  /\ UNCHANGED <<appVars, envVars, closeResolved, nextCycle, connected, closeCalled, callers, closers>>

CatchHandler_NeverSettles(c) ==
  /\ cycles[c].pc = "threw"
  /\ _connectingPromise' = 0
  /\ cycles' = [cycles EXCEPT ![c] = Returned]
  /\ UNCHANGED <<appVars, envVars, closeResolved, _pool, promise, nextCycle, connected,
                 closeCalled, callers, closers>>

CatchHandler_KeepsMarker(c) ==
  /\ cycles[c].pc = "threw"
  /\ promise' = [promise EXCEPT ![c] = Rejected(cycles[c].lastErr)]
  /\ cycles' = [cycles EXCEPT ![c] = Returned]
  /\ UNCHANGED <<appVars, envVars, closeResolved, _pool, _connectingPromise, nextCycle, connected,
                 closeCalled, callers, closers>>

\* .catch((err) => { _connectingPromise = null; ...; throw err; })
CatchHandler(c) ==
  /\ cycles[c].pc = "threw"
  /\ _connectingPromise' = 0
  /\ promise' = [promise EXCEPT ![c] = Rejected(cycles[c].lastErr)]
  /\ cycles' = [cycles EXCEPT ![c] = Returned]
  /\ UNCHANGED <<appVars, envVars, closeResolved, _pool, nextCycle, connected, closeCalled, callers, closers>>

\* The driver reports the stored pool as no longer connected.  (pool.connected
\* of a pool that is not stored is read by nothing.)
PoolDisconnects ==
  /\ _pool # 0
  /\ connected[_pool]
  /\ connected' = [connected EXCEPT ![_pool] = FALSE]
  /\ UNCHANGED <<appVars, envVars, closeResolved, mgrVars, closeCalled, callers, closers>>

\* ----------------------------------------------------------- closeSqlPool
\* closeSqlPool up to "await _pool.close()", or to its end when no pool is stored.
closeSqlPool ==
  /\ BagCardinality(closers) < MaxClosers
  /\ IF _pool # 0
       THEN /\ closeCalled' = closeCalled \cup {_pool}
            /\ closers' = closers (+) SetToBag({_pool})
            /\ UNCHANGED closeResolved
       ELSE /\ closeResolved' = closeObserved
            /\ UNCHANGED <<closeCalled, closers>>
  /\ UNCHANGED <<appVars, envVars, mgrVars, connected, callers>>

\* close() on pool p settled (ok: it resolved; otherwise it threw and the error
\* is logged); finally { _pool = null; }
CloseSettles(p, ok) ==
  /\ p \in BagToSet(closers)
  /\ _pool' = 0
  /\ connected' = IF ok THEN [connected EXCEPT ![p] = FALSE] ELSE connected
  /\ closers' = closers (-) SetToBag({p})
  /\ closeResolved' = closeObserved
  /\ UNCHANGED <<appVars, envVars, _connectingPromise, nextCycle, cycles, promise,
                 closeCalled, callers>>

Next ==
  \/ getSqlPool
  \/ \E k \in ActiveCallers : CallerResumes(k)
  \/ \E k \in ActiveCallers : CallerReturns(k)
  \/ \E c \in Cycles : TokenArrives(c)
  \/ \E c \in Cycles : TokenFails(c)
  \/ \E c \in Cycles : ConnectSucceeds(c)
  \/ \E c \in Cycles : ConnectFails(c)
  \/ \E c \in Cycles : BackoffElapses(c)
  \/ \E c \in Cycles : ThenHandler(c)
  \/ \E c \in Cycles : CatchHandler(c)
  \/ PoolDisconnects
  \/ closeSqlPool
  \/ \E p \in Cycles, ok \in BOOLEAN : CloseSettles(p, ok)

Spec == Init /\ [][Next]_vars

\* One cycle whose pool.connect() rejects with every kind of error: codes in
\* err.code or err.originalError.code, in either case, and messages.
FailureShapes ==
  [code : {Undefined, "", "ESOCKET", "ECONNRESET", "ETIMEDOUT", "ETIME",
           "ELOGIN", "esocket"},
   ocode : {Undefined, "ECONNRESET", "ELOGIN"},
   message : {"", "socket hang up", "Socket Hang Up",
              "read: SOCKET HANG UP (peer)", "socket hangup",
              "Login failed for user"}]

InitClassify == InitIn({HostedEnvironment})

NextClassify ==
  \/ nextCycle = 1 /\ getSqlPool
  \/ \E k \in ActiveCallers : CallerResumes(k)
  \/ \E k \in ActiveCallers : CallerReturns(k)
  \/ \E shape \in FailureShapes : ConnectFailsWith(1, shape)
  \/ BackoffElapses(1)
  \/ CatchHandler(1)

SpecClassify == InitClassify /\ [][NextClassify]_vars

\* What the event loop and the driver guarantee: a continuation that is ready
\* runs, a timer that was set fires, pool.connect() and pool.close() settle
\* (the driver has its own connectTimeout).  Nothing makes a caller call.
FairSteps ==
  /\ WF_vars(\E k \in ActiveCallers : CallerResumes(k))
  /\ WF_vars(\E k \in ActiveCallers : CallerReturns(k))
  /\ \A c \in Cycles :
       /\ WF_vars(ConnectSucceeds(c) \/ ConnectFails(c))
       /\ WF_vars(BackoffElapses(c))
       /\ WF_vars(ThenHandler(c))
       /\ WF_vars(CatchHandler(c))
  /\ WF_vars(\E p \in Cycles, ok \in BOOLEAN : CloseSettles(p, ok))

\* The pool manager while the credential provider never answers:
\* credential.getToken neither resolves nor rejects.
NextSilent ==
  \/ getSqlPool
  \/ \E k \in ActiveCallers : CallerResumes(k)
  \/ \E k \in ActiveCallers : CallerReturns(k)
  \/ \E c \in Cycles : ConnectSucceeds(c)
  \/ \E c \in Cycles : ConnectFails(c)
  \/ \E c \in Cycles : BackoffElapses(c)
  \/ \E c \in Cycles : ThenHandler(c)
  \/ \E c \in Cycles : CatchHandler(c)
  \/ PoolDisconnects
  \/ closeSqlPool
  \/ \E p \in Cycles, ok \in BOOLEAN : CloseSettles(p, ok)

SpecSilent == Init /\ [][NextSilent]_vars /\ FairSteps

\* The pool manager when everything it awaits completes.  Explicit-token mode,
\* where every attempt awaits the token fetch before pool.connect().  Shutdown
\* is left out: closeSqlPool reads and writes only _pool, and a stored pool
\* that getSqlPool cannot use is reached here through PoolDisconnects.
ExplicitTokenEnvironment ==
  [hosted |-> FALSE, clientId |-> "11111111-aaaa", force |-> TRUE]

InitCompletes == InitIn({ExplicitTokenEnvironment})

NextCompletes ==
  \/ getSqlPool
  \/ \E k \in ActiveCallers : CallerResumes(k)
  \/ \E k \in ActiveCallers : CallerReturns(k)
  \/ \E c \in Cycles : TokenArrives(c)
  \/ \E c \in Cycles : TokenFails(c)
  \/ \E c \in Cycles : ConnectSucceeds(c)
  \/ \E c \in Cycles : ConnectFails(c)
  \/ \E c \in Cycles : BackoffElapses(c)
  \/ \E c \in Cycles : ThenHandler(c)
  \/ \E c \in Cycles : CatchHandler(c)
  \/ PoolDisconnects

\* Every token fetch, every pool.connect() and every backoff timer of a cycle
\* completes; the event loop runs the handler chained on connectWithRetry and,
\* once the promise of the cycle has settled, the continuations of the callers
\* that await it, whatever other callers do.
Completes ==
  \A c \in Cycles :
    /\ WF_vars(TokenArrives(c) \/ TokenFails(c))
    /\ WF_vars(ConnectSucceeds(c) \/ ConnectFails(c))
    /\ WF_vars(BackoffElapses(c))
    /\ WF_vars(ThenHandler(c) \/ CatchHandler(c))
    /\ WF_vars(\E k \in ActiveCallers : k.awaits = c /\ CallerResumes(k))

SpecCompletes == InitCompletes /\ [][NextCompletes]_vars /\ Completes

\* The pool manager with the history of closeSqlPool recorded.
InitClose ==
  \E env \in PoolEnvironments :
    /\ InitPool(env, TRUE) /\ InitData /\ InitRoutes(TRUE)
    /\ InitKickbox("test_0123456789") /\ InitStarted /\ InitTokenOnly /\ InitRest

SpecClose == InitClose /\ [][Next]_vars

\* One connection cycle in every environment: what buildConfig selects.
InitConfig == InitIn(Environments)

NextConfig ==
  \/ nextCycle = 1 /\ getSqlPool
  \/ \E k \in ActiveCallers : CallerResumes(k)
  \/ \E k \in ActiveCallers : CallerReturns(k)
  \/ TokenArrives(1)
  \/ TokenFails(1)
  \/ ConnectSucceeds(1)
  \/ ConnectFails(1)
  \/ BackoffElapses(1)
  \/ ThenHandler(1)
  \/ CatchHandler(1)

SpecConfig == InitConfig /\ [][NextConfig]_vars

\* The statement-running callers against the pool manager, in a hosted
\* environment (no token to fetch).
InitQuery == InitIn({HostedEnvironment})

NextQuery ==
  \/ \E op \in Probes \cup Executors, bind \in BindFns : Invoke(op, bind)
  \/ \E k \in ActiveCallers : ExecutorResumes(k)
  \/ \E k \in ActiveCallers, ok \in BOOLEAN : QuerySettles(k, ok)
  \/ \E k \in ActiveCallers : CallerReturns(k)
  \/ \E c \in Cycles : ConnectSucceeds(c)
  \/ \E c \in Cycles : ConnectFails(c)
  \/ \E c \in Cycles : BackoffElapses(c)
  \/ \E c \in Cycles : ThenHandler(c)
  \/ \E c \in Cycles : CatchHandler(c)
  \/ PoolDisconnects

SpecQuery == InitQuery /\ [][NextQuery]_vars

\* ------------------------------------------------------------------------
\* Startup (index.js): secrets, Twilio, import of lib/sql.js, warm-up, listen
\* ------------------------------------------------------------------------
MaxStartupCallers == 1

\* Secret values Key Vault can hand back, and AZSQLPort as deployed.
ServerSecrets == {Undefined, "", "sql.example.com", "albanyregional.database.windows.net"}
DatabaseSecrets == {Undefined, "", "volunteers"}
PortSecrets == {Undefined, "", "1433", "0", "-1", "abc", "Infinity"}
DeployedPorts == {Undefined, "1433", "-1"}

\* process.exit(1)
Exited == [pc |-> "exited", listening |-> FALSE, attempt |-> 0, delay |-> 0]

\* A round of loadSecrets fetched every required secret (a failed fetch of
\* AZSQLPort counts as a value of undefined): the SQL settings are stored in
\* process.env and loadSecrets returns.
SecretsLoaded(sqlServer, sqlDb, sqlPort) ==
  /\ boot.pc = "loadSecrets"
  /\ processEnv' = [AZSQLServer |-> StoredText(sqlServer),
                    AZSQLDB |-> StoredText(sqlDb),
                    AZSQLPort |-> IF Truthy(sqlPort) THEN sqlPort
                                  ELSE processEnv.AZSQLPort]
  /\ boot' = Booting("initTwilio")
  /\ UNCHANGED <<sqlModule, poolVars, dbVars, httpVars, verifyVars, tokenOnlyVars, restVars>>

SecretsFail_Continues ==
  /\ boot.pc = "loadSecrets"
  /\ boot' = IF boot.attempt + 1 >= retries
               THEN Booting("initTwilio")
               ELSE [boot EXCEPT !.pc = "secretsBackoff", !.attempt = @ + 1,
                       !.delay = Min(SecretsBackoffStep * (boot.attempt + 1),
                                     SecretsBackoffCap)]
  /\ UNCHANGED <<processEnv, sqlModule, poolVars, dbVars, httpVars, verifyVars, tokenOnlyVars, restVars>>

SecretsFail_OneMore ==
  /\ boot.pc = "loadSecrets"
  /\ boot' = IF boot.attempt + 1 > retries
               THEN Exited
               ELSE [boot EXCEPT !.pc = "secretsBackoff", !.attempt = @ + 1,
                       !.delay = Min(SecretsBackoffStep * (boot.attempt + 1),
                                     SecretsBackoffCap)]
  /\ UNCHANGED <<processEnv, sqlModule, poolVars, dbVars, httpVars, verifyVars, tokenOnlyVars, restVars>>

\* A round of loadSecrets fails: attempt++; if (attempt >= retries) throw err,
\* which the catch block of the startup function answers with process.exit(1);
\* otherwise the timer of Math.min(2000 * attempt, 10000) ms is set.
SecretsFail ==
  /\ boot.pc = "loadSecrets"
  /\ boot' = IF boot.attempt + 1 >= retries
               THEN Exited
               ELSE [boot EXCEPT !.pc = "secretsBackoff", !.attempt = @ + 1,
                       !.delay = Min(SecretsBackoffStep * (boot.attempt + 1),
                                     SecretsBackoffCap)]
  /\ UNCHANGED <<processEnv, sqlModule, poolVars, dbVars, httpVars, verifyVars, tokenOnlyVars, restVars>>

\* The timer fired: the next round of loadSecrets starts.
SecretsBackoffElapses ==
  /\ boot.pc = "secretsBackoff"
  /\ boot' = [boot EXCEPT !.pc = "loadSecrets", !.delay = 0]
  /\ UNCHANGED <<processEnv, sqlModule, poolVars, dbVars, httpVars, verifyVars, tokenOnlyVars, restVars>>

\* initTwilio resolves, or its import of twilio fails.
TwilioSettles(ok) ==
  /\ boot.pc = "initTwilio"
  /\ boot' = IF ok THEN Booting("import") ELSE Exited
  /\ UNCHANGED <<processEnv, sqlModule, poolVars, dbVars, httpVars, verifyVars, tokenOnlyVars, restVars>>

\* import('./lib/sql.js'): the module body runs; a throw of its sanity checks
\* rejects the import and the catch block exits.
ImportSettles ==
  /\ boot.pc = "import"
  /\ sqlModule' = Imported(processEnv)
  /\ boot' = IF sqlModule'.state = "loaded" THEN Booting("imported") ELSE Exited
  /\ UNCHANGED <<processEnv, poolVars, dbVars, httpVars, verifyVars, tokenOnlyVars, restVars>>

\* After the import: getSqlPool() for warm-up, not awaited, then server.listen.
WarmUpAndListen ==
  /\ boot.pc = "imported"
  /\ Acquire("getSqlPool", "none")
  /\ boot' = Listening
  /\ UNCHANGED <<processEnv, sqlModule, dbVars, httpVars, verifyVars, tokenOnlyVars, restVars>>

\* A request handler of the listening server calls getSqlPool().
HandlerAcquires ==
  /\ boot.listening
  /\ BagCardinality(callers) < MaxStartupCallers
  /\ getSqlPool

InitStartup ==
  /\ InitManager(HostedEnvironment) /\ InitData /\ InitRoutes(TRUE)
  /\ InitKickbox("test_0123456789") /\ InitTokenOnly /\ InitRest
  /\ \E port \in DeployedPorts :
       processEnv = [AZSQLServer |-> Undefined, AZSQLDB |-> Undefined,
                     AZSQLPort |-> port]
  /\ sqlModule = NotImported
  /\ boot = Booting("loadSecrets")

NextStartup ==
  \/ \E sqlServer \in ServerSecrets, sqlDb \in DatabaseSecrets, sqlPort \in PortSecrets :
       SecretsLoaded(sqlServer, sqlDb, sqlPort)
  \/ SecretsFail
  \/ SecretsBackoffElapses
  \/ \E ok \in BOOLEAN : TwilioSettles(ok)
  \/ ImportSettles
  \/ WarmUpAndListen
  \/ HandlerAcquires
  \/ \E k \in ActiveCallers : CallerResumes(k)
  \/ \E k \in ActiveCallers : CallerReturns(k)
  \/ \E c \in Cycles : ConnectSucceeds(c)
  \/ \E c \in Cycles : ConnectFails(c)
  \/ \E c \in Cycles : BackoffElapses(c)
  \/ \E c \in Cycles : ThenHandler(c)
  \/ \E c \in Cycles : CatchHandler(c)
  \/ PoolDisconnects

SpecStartup == InitStartup /\ [][NextStartup]_vars


\* ------------------------------------------------------------------------
\* The data-access functions and the statements they send (lib/db.js)
\* ------------------------------------------------------------------------
\* SQL NULL in a column.
Null == "NULL"

Emails == {"ann@example.org", "bob@example.org"}
Passwords == {"correct horse"}
Profiles ==
  { [firstName |-> "Ann", lastName |-> "Lee", phone |-> "+15185550101", suffix |-> ""],
    [firstName |-> "Bob", lastName |-> "Ray", phone |-> "+15185550101", suffix |-> "Jr"],
    [firstName |-> "Bob", lastName |-> "Ray", phone |-> "+15185550102", suffix |-> "Jr"] }
Ids == 1..MaxIdentity

\* hashPassword: the stored hash is a function of the password and the salt
\* (crypto.randomBytes; one salt stands for all).
hashPassword(password) ==
  [hash |-> <<password, "salt">>, salt |-> "salt", algorithm |-> "pbkdf2-sha256"]

\* The row INSERT ... VALUES (@email, @hash, @salt, @algo, @iter) adds: the
\* columns the statement does not name are NULL.
InsertedRow(id, email, password) ==
  [id |-> id, email |-> email,
   passwordHash |-> hashPassword(password).hash,
   passwordSalt |-> hashPassword(password).salt,
   passwordAlgo |-> hashPassword(password).algorithm,
   firstName |-> Null, lastName |-> Null, phone |-> Null, suffix |-> Null]

\* UPDATE ... SET firstName, lastName, phone, suffix (SMSCapable is bound but
\* the statement never uses it).
UpdatedRow_OverwritesEmail(r, a) ==
  [r EXCEPT !.firstName = a.firstName, !.lastName = a.lastName,
            !.phone = a.phone, !.suffix = a.suffix, !.email = Null]

UpdatedRow(r, a) ==
  [r EXCEPT !.firstName = a.firstName, !.lastName = a.lastName,
            !.phone = a.phone, !.suffix = a.suffix]

\* UNIQUE ([email]) and UNIQUE ([phone]): a unique constraint of SQL Server
\* counts NULL as a value, so it admits one row with a NULL phone.
UQ_email(t) == \A r1, r2 \in t : r1.email = r2.email => r1 = r2
UQ_volunteer_phone(t) == \A r1, r2 \in t : r1.phone = r2.phone => r1 = r2
ConstraintsHold(t) == UQ_email(t) /\ UQ_volunteer_phone(t)

\* What req.query() settles with: a result without a recordset, a result
\* with one, or error 2627 (violation of a unique constraint).
NoRecordset == [kind |-> "result", hasRecordset |-> FALSE, recordset |-> << >>]
Recordset(rows) == [kind |-> "result", hasRecordset |-> TRUE, recordset |-> rows]
UniqueViolation == [kind |-> "error", hasRecordset |-> FALSE, recordset |-> << >>]

\* What a data-access function returns.
NullResult == [kind |-> "null"]
RowResult(r) == [kind |-> "row", row |-> r]
BoolResult(b) == [kind |-> "bool", value |-> b]
ThrownResult == [kind |-> "threw", number |-> 2627]
NoResult == [kind |-> "pending"]

\* A call up to "await exec(sqlText, ...)"; before is the table as the call
\* found it.
Called(fn, args) ==
  [fn |-> fn, args |-> args, pc |-> "statement", before |-> table,
   settled |-> NoRecordset, result |-> NoResult]

Idle == dbCall.fn = "none"

insertEmailPass(email, password) ==
  /\ Idle
  /\ nextId <= MaxIdentity
  /\ dbCall' = Called("insertEmailPass", [email |-> email, password |-> password])
  /\ UNCHANGED <<exceptDb, table, nextId, created>>

insertNameAndPhone(id, profile) ==
  /\ Idle
  /\ dbCall' = Called("insertNameAndPhone", [id |-> id, profile |-> profile])
  /\ UNCHANGED <<exceptDb, table, nextId, created>>

emailExists(email) ==
  /\ Idle
  /\ dbCall' = Called("emailExists", [email |-> email])
  /\ UNCHANGED <<exceptDb, table, nextId, created>>

namePhoneExists(profile) ==
  /\ Idle
  /\ dbCall' = Called("namePhoneExists", [profile |-> profile])
  /\ UNCHANGED <<exceptDb, table, nextId, created>>

\* IF NOT EXISTS (SELECT 1 FROM volunteer_in WHERE email = @email)
GuardFinds(email) == \E r \in table : r.email = email

\* The server evaluates the guard of the conditional insert.
GuardEvaluated ==
  /\ ~Idle
  /\ dbCall.fn = "insertEmailPass" /\ dbCall.pc = "statement"
  /\ dbCall' = IF GuardFinds(dbCall.args.email)
                 THEN [dbCall EXCEPT !.pc = "settled", !.settled = NoRecordset]
                 ELSE [dbCall EXCEPT !.pc = "insert"]
  /\ UNCHANGED <<exceptDb, table, nextId, created>>

\* The server runs the INSERT: the identity value is consumed, and the row
\* is added unless a unique constraint rejects it.
InsertRuns ==
  /\ ~Idle
  /\ dbCall.fn = "insertEmailPass" /\ dbCall.pc = "insert"
  /\ LET r == InsertedRow(nextId, dbCall.args.email, dbCall.args.password)
     IN IF ConstraintsHold(table \cup {r})
          THEN /\ table' = table \cup {r}
               /\ dbCall' = [dbCall EXCEPT !.pc = "settled",
                    !.settled = Recordset(<<[id |-> r.id, email |-> r.email]>>)]
          ELSE /\ table' = table
               /\ dbCall' = [dbCall EXCEPT !.pc = "settled", !.settled = UniqueViolation]
  /\ nextId' = nextId + 1
  /\ UNCHANGED <<exceptDb, created>>

\* The server runs UPDATE ... OUTPUT inserted.* WHERE id = @id.
UpdateRuns ==
  /\ ~Idle
  /\ dbCall.fn = "insertNameAndPhone" /\ dbCall.pc = "statement"
  /\ LET hit == {r \in table : r.id = dbCall.args.id}
         new == {UpdatedRow(r, dbCall.args.profile) : r \in hit}
         t == (table \ hit) \cup new
     IN IF hit = {}
          THEN /\ table' = table
               /\ dbCall' = [dbCall EXCEPT !.pc = "settled", !.settled = Recordset(<< >>)]
          ELSE IF ConstraintsHold(t)
            THEN /\ table' = t
                 /\ dbCall' = [dbCall EXCEPT !.pc = "settled",
                      !.settled = Recordset(<<CHOOSE r \in new : TRUE>>)]
            ELSE /\ table' = table
                 /\ dbCall' = [dbCall EXCEPT !.pc = "settled", !.settled = UniqueViolation]
  /\ UNCHANGED <<exceptDb, nextId, created>>

Matches_Any(call) == table

\* The rows the WHERE clause of SELECT TOP (1) 1 AS exists_flag selects.
Matches(call) ==
  IF call.fn = "emailExists"
    THEN {r \in table : r.email = call.args.email}
    ELSE {r \in table : /\ r.phone = call.args.profile.phone
                        /\ r.firstName = call.args.profile.firstName
                        /\ r.lastName = call.args.profile.lastName
                        /\ r.suffix = call.args.profile.suffix}

SelectRuns ==
  /\ ~Idle
  /\ dbCall.fn \in {"emailExists", "namePhoneExists"} /\ dbCall.pc = "statement"
  /\ dbCall' = [dbCall EXCEPT !.pc = "settled",
       !.settled = Recordset(IF Matches(dbCall) = {} THEN << >>
                             ELSE <<[exists_flag |-> 1]>>)]
  /\ UNCHANGED <<exceptDb, table, nextId, created>>

\* return result.recordset?.[0] ?? null;   return !!res.recordset?.length;
\* (an error of req.query propagates)
ReturnValue(call) ==
  IF call.settled.kind = "error" THEN ThrownResult
  ELSE IF call.fn \in {"emailExists", "namePhoneExists"}
    THEN BoolResult(call.settled.hasRecordset /\ Len(call.settled.recordset) # 0)
    ELSE IF call.settled.hasRecordset /\ Len(call.settled.recordset) # 0
      THEN RowResult(call.settled.recordset[1])
      ELSE NullResult

\* "await exec(...)" resumes and the function returns or throws.
DbReturns ==
  /\ ~Idle
  /\ dbCall.pc = "settled"
  /\ dbCall' = [dbCall EXCEPT !.pc = "returned", !.result = ReturnValue(dbCall)]
  /\ created' = IF dbCall.fn = "insertEmailPass" /\ ReturnValue(dbCall).kind = "row"
                  THEN created \cup {dbCall.args.email} ELSE created
  /\ UNCHANGED <<exceptDb, table, nextId>>

\* The caller is done with the result.
DbCallEnds ==
  /\ ~Idle
  /\ dbCall.pc = "returned"
  /\ dbCall' = NoCall
  /\ UNCHANGED <<exceptDb, table, nextId, created>>

NextDb ==
  \/ \E e \in Emails, pw \in Passwords : insertEmailPass(e, pw)
  \/ \E id \in Ids, a \in Profiles : insertNameAndPhone(id, a)
  \/ \E e \in Emails : emailExists(e)
  \/ \E a \in Profiles : namePhoneExists(a)
  \/ GuardEvaluated
  \/ InsertRuns
  \/ UpdateRuns
  \/ SelectRuns
  \/ DbReturns
  \/ DbCallEnds

\* The table is empty when the first call arrives.
InitDb == InitIn({HostedEnvironment})

SpecDb == InitDb /\ [][NextDb]_vars

\* ------------------------------------- concurrent insertEmailPass calls
\* Each call runs its statement on a connection of its own (the pool hands
\* out up to 10); the server runs the guard and the INSERT of one batch as
\* separate steps, and the statement asks for no lock that would hold between
\* them.  The calls share the table and its identity counter.
Racers == 1..MaxRacers

RaceCalls(i, email, password) ==
  /\ race[i].pc = "idle"
  /\ nextId <= MaxIdentity
  /\ race' = [race EXCEPT ![i] =
       Called("insertEmailPass", [email |-> email, password |-> password])]
  /\ UNCHANGED <<poolVars, dbVars, httpVars, verifyVars, bootVars, tokenOnlyVars, kv, web, form>>

\* IF NOT EXISTS (SELECT 1 FROM volunteer_in WHERE email = @email)
RaceGuardEvaluated(i) ==
  /\ race[i].pc = "statement"
  /\ race' = [race EXCEPT ![i] =
       IF GuardFinds(@.args.email)
         THEN [@ EXCEPT !.pc = "settled", !.settled = NoRecordset]
         ELSE [@ EXCEPT !.pc = "insert"]]
  /\ UNCHANGED <<poolVars, dbVars, httpVars, verifyVars, bootVars, tokenOnlyVars, kv, web, form>>

\* INSERT ... OUTPUT inserted.id, inserted.email: the row is added unless a
\* unique constraint rejects it (error 2627).
RaceInsertRuns(i) ==
  /\ race[i].pc = "insert"
  /\ LET r == InsertedRow(nextId, race[i].args.email, race[i].args.password)
     IN IF ConstraintsHold(table \cup {r})
          THEN /\ table' = table \cup {r}
               /\ race' = [race EXCEPT ![i].pc = "settled",
                    ![i].settled = Recordset(<<[id |-> r.id, email |-> r.email]>>)]
          ELSE /\ table' = table
               /\ race' = [race EXCEPT ![i].pc = "settled",
                                       ![i].settled = UniqueViolation]
  /\ nextId' = nextId + 1
  /\ UNCHANGED <<poolVars, dbCall, created, httpVars, verifyVars, bootVars, tokenOnlyVars, kv, web, form>>

\* "await exec(...)" resumes: return result.recordset?.[0] ?? null, or the
\* error of req.query propagates.
RaceReturns(i) ==
  /\ race[i].pc = "settled"
  /\ race' = [race EXCEPT ![i].pc = "returned", ![i].result = ReturnValue(race[i])]
  /\ UNCHANGED <<poolVars, dbVars, httpVars, verifyVars, bootVars, tokenOnlyVars, kv, web, form>>

\* The caller is done with the result.
RaceCallEnds(i) ==
  /\ race[i].pc = "returned"
  /\ race' = [race EXCEPT ![i] = NotRacing]
  /\ UNCHANGED <<poolVars, dbVars, httpVars, verifyVars, bootVars, tokenOnlyVars, kv, web, form>>

NextRace ==
  \/ \E i \in Racers, e \in Emails, pw \in Passwords : RaceCalls(i, e, pw)
  \/ \E i \in Racers : RaceGuardEvaluated(i)
  \/ \E i \in Racers : RaceInsertRuns(i)
  \/ \E i \in Racers : RaceReturns(i)
  \/ \E i \in Racers : RaceCallEnds(i)

\* The table is empty when the first call arrives.
InitRace ==
  /\ InitCore(HostedEnvironment, TRUE) /\ KvAtRest /\ WebAtRest /\ FormAtRest
  /\ race = [i \in Racers |-> NotRacing]

SpecRace == InitRace /\ [][NextRace]_vars

\* ------------------------------------------------------------------------
\* Sessions: POST /submit-advanced-info and /submit-phoneVer of several
\* browsers against the table
\* ------------------------------------------------------------------------
Sessions == 1..MaxSessions
exceptWeb == <<poolVars, dbCall, created, httpVars, verifyVars, bootVars, tokenOnlyVars, race, kv, form>>

\* phone.replace(/\D+/g, ""): the digits of the text.
RECURSIVE DigitsOf(_)
DigitsOf(text) ==
  IF text = "" THEN ""
  ELSE (IF CharAt(text, 1) \in DOMAIN DigitOf THEN CharAt(text, 1) ELSE "")
         \o DigitsOf(SubSeq(text, 2, Len(text)))

\* The bodies the forms post.
CredentialBodies == [email : Emails, password : Passwords]
ProfileBodies == Profiles

WebReceive_NoSessionCheck(b, route, body) ==
  /\ web.reqs[b].pc = "idle"
  /\ \/ route = "/submit-advanced-info" /\ body \in CredentialBodies
     \/ route = "/submit-phoneVer" /\ body \in ProfileBodies
  /\ web' = [web EXCEPT !.reqs[b] =
       IF route = "/submit-advanced-info"
         THEN [NoExchange EXCEPT !.route = route, !.pc = "insertEmailPass", !.body = body]
         ELSE [NoExchange EXCEPT !.route = route, !.pc = "namePhoneExists",
                 !.userId = web.userId[b],
                 !.body = [body EXCEPT !.phone = DigitsOf(body.phone)]]]
  /\ UNCHANGED <<exceptWeb, table, nextId>>

\* A request of session b arrives and its handler runs up to its first await
\* or its response.
WebReceive(b, route, body) ==
  /\ web.reqs[b].pc = "idle"
  /\ \/ route = "/submit-advanced-info" /\ body \in CredentialBodies
     \/ route = "/submit-phoneVer" /\ body \in ProfileBodies
  /\ web' = [web EXCEPT !.reqs[b] =
       IF route = "/submit-advanced-info"
         THEN [NoExchange EXCEPT !.route = route, !.pc = "insertEmailPass", !.body = body]
         ELSE IF web.userId[b] = NoUserId
           THEN [NoExchange EXCEPT !.route = route, !.pc = "responded", !.status = 400]
           ELSE [NoExchange EXCEPT !.route = route, !.pc = "namePhoneExists",
                   !.userId = web.userId[b],
                   !.body = [body EXCEPT !.phone = DigitsOf(body.phone)]]]
  /\ UNCHANGED <<exceptWeb, table, nextId>>

\* The server runs the statement the handler of session b awaits.
WebStatementRuns(b) ==
  LET f == web.reqs[b] IN
  /\ f.pc \in {"insertEmailPass", "namePhoneExists", "insertNameAndPhone"}
  /\ f.settled = NotRun
  /\ CASE f.pc = "insertEmailPass" ->
            /\ nextId <= MaxIdentity
            /\ IF GuardFinds(f.body.email)
                 THEN /\ web' = [web EXCEPT !.reqs[b].settled = NoRecordset,
                                            !.reqs[b].stmts = @ + 1]
                      /\ UNCHANGED <<table, nextId>>
                 ELSE LET r == InsertedRow(nextId, f.body.email, f.body.password) IN
                      /\ nextId' = nextId + 1
                      /\ IF ConstraintsHold(table \cup {r})
                           THEN /\ table' = table \cup {r}
                                /\ web' = [web EXCEPT !.reqs[b].stmts = @ + 1,
                                     !.reqs[b].settled =
                                       Recordset(<<[id |-> r.id, email |-> r.email]>>)]
                           ELSE /\ table' = table
                                /\ web' = [web EXCEPT !.reqs[b].stmts = @ + 1,
                                                      !.reqs[b].settled = UniqueViolation]
       [] f.pc = "namePhoneExists" ->
            /\ web' = [web EXCEPT !.reqs[b].stmts = @ + 1,
                 !.reqs[b].settled =
                   Recordset(IF Matches([fn |-> "namePhoneExists",
                                         args |-> [profile |-> f.body]]) = {}
                               THEN << >> ELSE <<[exists_flag |-> 1]>>)]
            /\ UNCHANGED <<table, nextId>>
       [] f.pc = "insertNameAndPhone" ->
            LET hit == {r \in table : r.id = f.userId}
                new == {UpdatedRow(r, f.body) : r \in hit}
                t == (table \ hit) \cup new
            IN /\ IF hit = {}
                    THEN /\ table' = table
                         /\ web' = [web EXCEPT !.reqs[b].stmts = @ + 1,
                                               !.reqs[b].updated = TRUE,
                                               !.reqs[b].settled = Recordset(<< >>)]
                    ELSE IF ConstraintsHold(t)
                      THEN /\ table' = t
                           /\ web' = [web EXCEPT !.reqs[b].stmts = @ + 1,
                                !.reqs[b].updated = TRUE,
                                !.reqs[b].settled = Recordset(<<CHOOSE r \in new : TRUE>>)]
                      ELSE /\ table' = table
                           /\ web' = [web EXCEPT !.reqs[b].stmts = @ + 1,
                                                 !.reqs[b].updated = TRUE,
                                                 !.reqs[b].settled = UniqueViolation]
               /\ UNCHANGED nextId
  /\ UNCHANGED exceptWeb

\* The await of the handler of session b resumes with what the data-access
\* function returned or threw, and the handler runs to its next await or to
\* its response.
WebHandlerResumes(b) ==
  LET f == web.reqs[b]
      out == ReturnValue([fn |-> f.pc, settled |-> f.settled])
  IN
  /\ f.pc \in {"insertEmailPass", "namePhoneExists", "insertNameAndPhone"}
  /\ f.settled # NotRun
  /\ web' =
       CASE out.kind = "threw" ->
              [web EXCEPT !.reqs[b].pc = "responded", !.reqs[b].status = 500]
         [] f.pc = "insertEmailPass" /\ out.kind = "null" ->
              [web EXCEPT !.reqs[b].pc = "responded", !.reqs[b].status = 409]
         [] f.pc = "insertEmailPass" /\ out.kind = "row" ->
              [web EXCEPT !.userId[b] = out.row.id,
                          !.reqs[b].pc = "responded", !.reqs[b].status = 302]
         [] f.pc = "namePhoneExists" /\ out.value ->
              [web EXCEPT !.reqs[b].pc = "responded", !.reqs[b].status = 200,
                          !.reqs[b].dup = TRUE]
         [] f.pc = "namePhoneExists" /\ ~out.value ->
              [web EXCEPT !.reqs[b].pc = "insertNameAndPhone",
                          !.reqs[b].settled = NotRun]
         [] f.pc = "insertNameAndPhone" /\ out.kind = "null" ->
              [web EXCEPT !.reqs[b].pc = "responded", !.reqs[b].status = 409]
         [] f.pc = "insertNameAndPhone" /\ out.kind = "row" ->
              [web EXCEPT !.reqs[b].pc = "responded", !.reqs[b].status = 200]
  /\ UNCHANGED <<exceptWeb, table, nextId>>

\* The exchange is over.
WebRequestEnds(b) ==
  /\ web.reqs[b].pc = "responded"
  /\ web' = [web EXCEPT !.reqs[b] = NoExchange]
  /\ UNCHANGED <<exceptWeb, table, nextId>>

NextWeb ==
  \/ \E b \in Sessions, body \in CredentialBodies :
       WebReceive(b, "/submit-advanced-info", body)
  \/ \E b \in Sessions, body \in ProfileBodies :
       WebReceive(b, "/submit-phoneVer", body)
  \/ \E b \in Sessions : WebStatementRuns(b)
  \/ \E b \in Sessions : WebHandlerResumes(b)
  \/ \E b \in Sessions : WebRequestEnds(b)

\* No session has registered and the table is empty.
InitWeb ==
  /\ InitCore(HostedEnvironment, TRUE) /\ RaceAtRest /\ KvAtRest /\ FormAtRest
  /\ web = [userId |-> [b \in Sessions |-> NoUserId],
            reqs |-> [b \in Sessions |-> NoExchange]]

SpecWeb == InitWeb /\ [][NextWeb]_vars

\* ------------------------------------------------------------------------
\* The phone form script (src/phoneVer.js; public/js/phoneVer.js is the same
\* script without the submit button): the phone and confirm fields, the
\* debounce timer and the /validate-phone requests in flight
\* ------------------------------------------------------------------------
Fetches == 1..MaxFetches
exceptForm == <<poolVars, dbVars, httpVars, verifyVars, bootVars, tokenOnlyVars, race, kv, web>>

\* s.trim(): the text without the blanks at its ends.
RECURSIVE Trim(_)
Trim(text) ==
  IF text = "" THEN ""
  ELSE IF CharAt(text, 1) = " " THEN Trim(SubSeq(text, 2, Len(text)))
  ELSE IF CharAt(text, Len(text)) = " " THEN Trim(SubSeq(text, 1, Len(text) - 1))
  ELSE text

\* What the user leaves in the phone field and in the confirm field.
PhoneTexts == {"(518) 555-____", "(518) 555-0101", "(518) 555-0102"}
ConfirmTexts == {"", "518 555 0102 "}

\* The bodies /validate-phone answers with: valid false, valid true, or valid
\* true and exists true; {} stands for a body that could not be read.
Bodies == {"invalid", "valid", "exists"}
EmptyBody == "{}"

isRadioSelected(f) == f.others

\* firstName, lastName, phone and confirm all hold text.
allFieldsFilled(f) == f.others /\ Trim(f.phone) # "" /\ Trim(f.confirm) # ""

phonesAreMatching(f) == DigitsOf(Trim(f.phone)) = DigitsOf(Trim(f.confirm))

\* The form after updateSubmitState().
updateSubmitState(f) ==
  [f EXCEPT !.submitEnabled =
     /\ allFieldsFilled(f)
     /\ phonesAreMatching(f)
     /\ f.phoneDeliverable
     /\ f.phonesMatch
     /\ isRadioSelected(f)]

\* The form after evaluateConfirmMatch().
evaluateConfirmMatch(f) ==
  updateSubmitState(
    IF ~f.phoneDeliverable THEN [f EXCEPT !.phonesMatch = FALSE]
    ELSE IF DigitsOf(Trim(f.confirm)) = "" THEN [f EXCEPT !.phonesMatch = FALSE]
    ELSE [f EXCEPT !.phonesMatch =
            (DigitsOf(Trim(f.confirm)) = DigitsOf(Trim(f.phone)))])

\* phoneDeliverable = false; setConfirmEnabled(false); phonesMatch = false.
Undeliverable(f) ==
  [f EXCEPT !.phoneDeliverable = FALSE, !.confirmEnabled = FALSE, !.phonesMatch = FALSE]

\* The finally block of the fetchPhoneNumber call in frame r, which returned
\* at its stale check or elsewhere; the frame is free again.
Finally(f, r, stale) ==
  updateSubmitState([f EXCEPT !.inflightAbort = 0, !.fetches[r] = NoFetch,
                              !.ignored = stale])

\* The page has loaded: the script finds the confirm field as the markup
\* left it and disables the submit button.
DOMContentLoaded(enabled) ==
  /\ ~form.loaded
  /\ form' = updateSubmitState([FormAtLoad EXCEPT !.observed = form.observed,
                                                  !.confirmEnabled = enabled])
  /\ UNCHANGED exceptForm

\* The user changes the phone field to raw.
PhoneInput(raw) ==
  /\ form.loaded
  /\ raw # form.phone
  /\ LET typed == [form EXCEPT !.phone = raw, !.debounceId = NoTimer] IN
       form' = IF Trim(raw) = "" \/ Len(DigitsOf(raw)) < MinDigits
                 THEN updateSubmitState(Undeliverable(typed))
                 ELSE updateSubmitState(
                        [typed EXCEPT !.debounceId = [pending |-> TRUE, raw |-> raw]])
  /\ UNCHANGED exceptForm

\* The user changes the confirm field, which is possible while it is enabled.
ConfirmInput(text) ==
  /\ form.loaded
  /\ form.confirmEnabled
  /\ text # form.confirm
  /\ form' = updateSubmitState(evaluateConfirmMatch([form EXCEPT !.confirm = text]))
  /\ UNCHANGED exceptForm

\* The user completes the name fields and the SMSCapable radio buttons, or
\* clears a name field.
OtherInput(filled) ==
  /\ form.loaded
  /\ filled # form.others
  /\ form' = updateSubmitState([form EXCEPT !.others = filled])
  /\ UNCHANGED exceptForm

\* The debounce timer fires: fetchPhoneNumber(raw) runs up to "await fetch"
\* in the free frame r.  The controller stored in inflightAbort, if any, is
\* aborted and replaced by the one of this call.
fetchPhoneNumber(r) ==
  /\ form.loaded
  /\ form.debounceId.pending
  /\ form.fetches[r].pc = "none"
  /\ \A q \in 1..(r - 1) : form.fetches[q].pc # "none"
  /\ form' = [form EXCEPT
       !.debounceId = NoTimer,
       !.inflightAbort = r,
       !.fetches = [q \in Fetches |->
          IF q = r
            THEN [NoFetch EXCEPT !.pc = "fetch",
                                 !.requestedPhone = Trim(form.debounceId.raw)]
            ELSE IF q = form.inflightAbort
              THEN [form.fetches[q] EXCEPT !.aborted = TRUE]
              ELSE form.fetches[q]]]
  /\ UNCHANGED exceptForm

\* fetch() of frame r resolves with the response, whose ok is known.
PhoneFetchResolves(r, ok) ==
  /\ form.loaded
  /\ form.fetches[r].pc = "fetch"
  /\ ~form.fetches[r].aborted
  /\ form' = [form EXCEPT !.fetches[r].pc = "json", !.fetches[r].ok = ok]
  /\ UNCHANGED exceptForm

PhoneJsonSettles_NoStaleCheck(r, data) ==
  /\ form.loaded
  /\ form.fetches[r].pc = "json"
  /\ IF form.fetches[r].aborted \/ ~form.fetches[r].ok
       THEN data = EmptyBody ELSE data \in Bodies
  /\ LET req == form.fetches[r]
         answered == [form EXCEPT !.validated =
                        IF form.observed /\ data \in {"valid", "exists"}
                          THEN @ \cup {req.requestedPhone} ELSE @]
     IN form' =
          IF ~req.ok
            THEN Finally(updateSubmitState(Undeliverable(answered)), r, FALSE)
          ELSE IF data = "exists"
            THEN Finally(updateSubmitState(
                   [answered EXCEPT !.phoneDeliverable = TRUE, !.confirmEnabled = FALSE,
                                    !.phonesMatch = FALSE]), r, FALSE)
          ELSE IF data = "valid"
            THEN Finally(evaluateConfirmMatch(
                   [answered EXCEPT !.phoneDeliverable = TRUE, !.confirmEnabled = TRUE]),
                   r, FALSE)
          ELSE Finally(evaluateConfirmMatch(Undeliverable(answered)), r, FALSE)
  /\ UNCHANGED exceptForm

\* res.json() of frame r settles with data and the rest of fetchPhoneNumber
\* runs.  The body of a response that is not ok carries no verdict; a body
\* read that was aborted rejects, which .catch turns into {}.
PhoneJsonSettles(r, data) ==
  /\ form.loaded
  /\ form.fetches[r].pc = "json"
  /\ IF form.fetches[r].aborted \/ ~form.fetches[r].ok
       THEN data = EmptyBody ELSE data \in Bodies
  /\ LET req == form.fetches[r]
         answered == [form EXCEPT !.validated =
                        IF form.observed /\ data \in {"valid", "exists"}
                          THEN @ \cup {req.requestedPhone} ELSE @]
     IN form' =
          IF Trim(form.phone) # req.requestedPhone
            THEN Finally(answered, r, TRUE)
          ELSE IF ~req.ok
            THEN Finally(updateSubmitState(Undeliverable(answered)), r, FALSE)
          ELSE IF data = "exists"
            THEN Finally(updateSubmitState(
                   [answered EXCEPT !.phoneDeliverable = TRUE, !.confirmEnabled = FALSE,
                                    !.phonesMatch = FALSE]), r, FALSE)
          ELSE IF data = "valid"
            THEN Finally(evaluateConfirmMatch(
                   [answered EXCEPT !.phoneDeliverable = TRUE, !.confirmEnabled = TRUE]),
                   r, FALSE)
          ELSE Finally(evaluateConfirmMatch(Undeliverable(answered)), r, FALSE)
  /\ UNCHANGED exceptForm

\* fetch() of frame r rejects with AbortError: the catch block returns.
PhoneAbortRejects(r) ==
  /\ form.loaded
  /\ form.fetches[r].pc = "fetch"
  /\ form.fetches[r].aborted
  /\ form' = Finally(form, r, FALSE)
  /\ UNCHANGED exceptForm

\* fetch() of frame r rejects with an error other than AbortError.
PhoneFetchFails(r) ==
  /\ form.loaded
  /\ form.fetches[r].pc = "fetch"
  /\ ~form.fetches[r].aborted
  /\ form' = Finally(Undeliverable(form), r, FALSE)
  /\ UNCHANGED exceptForm

\* The user presses the enabled submit button: the submit handler runs up to
\* the POST of /submit-phoneVer.
SubmitForm ==
  /\ form.loaded
  /\ form.submitEnabled
  /\ LET f == evaluateConfirmMatch(form) IN
       form' = IF f.phoneDeliverable /\ f.phonesMatch /\ isRadioSelected(f) /\ allFieldsFilled(f)
                 THEN [f EXCEPT !.submitEnabled = FALSE,
                                !.posted = IF f.observed
                                             THEN [sent |-> TRUE, phone |-> Trim(f.phone)]
                                             ELSE @]
                 ELSE updateSubmitState(f)
  /\ UNCHANGED exceptForm

NextForm ==
  \/ \E enabled \in BOOLEAN : DOMContentLoaded(enabled)
  \/ \E raw \in PhoneTexts : PhoneInput(raw)
  \/ \E text \in ConfirmTexts : ConfirmInput(text)
  \/ \E filled \in BOOLEAN : OtherInput(filled)
  \/ \E r \in Fetches : fetchPhoneNumber(r)
  \/ \E r \in Fetches, ok \in BOOLEAN : PhoneFetchResolves(r, ok)
  \/ \E r \in Fetches, data \in Bodies \cup {EmptyBody} : PhoneJsonSettles(r, data)
  \/ \E r \in Fetches : PhoneAbortRejects(r)
  \/ \E r \in Fetches : PhoneFetchFails(r)
  \/ SubmitForm

\* The page has not loaded yet.
InitForm == InitIn({HostedEnvironment})

SpecForm == InitForm /\ [][NextForm]_vars

\* The same page, with the answers of /validate-phone and the posted value
\* recorded.
InitObserved ==
  /\ InitCore(HostedEnvironment, TRUE) /\ RaceAtRest /\ KvAtRest /\ WebAtRest
  /\ form = [NoPage EXCEPT !.observed = TRUE]

SpecObserved == InitObserved /\ [][NextForm]_vars

\* ------------------------------------------------------------------------
\* The Key-Vault-config module (src/config/azureConfig.js): getSqlPool with
\* AAD first and SQL authentication as fallback
\* ------------------------------------------------------------------------
KvCalls == 1..MaxKvCalls
exceptKv == <<poolVars, dbVars, httpVars, verifyVars, bootVars, tokenOnlyVars, race, web, form>>

\* connectWithRetry(dbConfig) entered with the configuration of mode: the
\* first sql.connect(dbConfig).
KvConnecting(f, mode) ==
  [f EXCEPT !.mode = mode, !.attempt = 1, !.pc = "connect", !.delay = 0,
            !.nAad = IF mode = "aad" THEN @ + 1 ELSE @,
            !.nSql = IF mode = "sql" THEN @ + 1 ELSE @]

KvConnectFailed_OneMore(f) ==
  IF f.attempt = KvRetries + 1
    THEN IF f.mode = "aad" THEN KvConnecting(f, "sql")
         ELSE [f EXCEPT !.pc = "threw"]
    ELSE [f EXCEPT !.pc = "backoff", !.delay = KvDelay * f.attempt]

\* sql.connect() rejected: if (attempt === retries) throw err, else the timer
\* of delay * attempt ms.  Thrown out of the AAD path, the error is caught by
\* getSqlPool, which falls back to SQL authentication; thrown out of the
\* fallback, it propagates.
KvConnectFailed(f) ==
  IF f.attempt = KvRetries
    THEN IF f.mode = "aad" THEN KvConnecting(f, "sql")
         ELSE [f EXCEPT !.pc = "threw"]
    ELSE [f EXCEPT !.pc = "backoff", !.delay = KvDelay * f.attempt]

\* getSqlPool(): if (pool) return pool; otherwise up to "await getConfig()".
KvCall(i) ==
  /\ kv.calls[i].pc = "idle"
  /\ kv' = [kv EXCEPT !.calls[i] =
       IF kv.pool # 0
         THEN [KvIdle EXCEPT !.pc = "returned", !.got = kv.pool]
         ELSE [KvIdle EXCEPT !.pc = "config"]]
  /\ UNCHANGED exceptKv

\* getConfig() resolved, up to "await credential.getToken(...)"; or one of
\* its secrets could not be fetched and the error propagates.
KvConfigSettles(i, ok) ==
  /\ kv.calls[i].pc = "config"
  /\ kv' = [kv EXCEPT !.calls[i].pc = IF ok THEN "token" ELSE "threw"]
  /\ UNCHANGED exceptKv

\* credential.getToken settled: the AAD configuration is built and
\* connectWithRetry called with it, or the catch block calls connectWithRetry
\* with the SQL-authentication configuration.
KvTokenSettles(i, ok) ==
  /\ kv.calls[i].pc = "token"
  /\ kv' = [kv EXCEPT !.calls[i] =
       IF ok THEN KvConnecting(@, "aad")
       ELSE KvConnecting([@ EXCEPT !.tokenFailed = TRUE], "sql")]
  /\ UNCHANGED exceptKv

\* sql.connect() resolved: pool = the connected pool; return pool.
KvConnectSucceeds(i) ==
  /\ kv.calls[i].pc = "connect"
  /\ kv' = [kv EXCEPT !.pool = i,
                      !.calls[i].pc = "returned", !.calls[i].got = i]
  /\ UNCHANGED exceptKv

KvConnectFails(i) ==
  /\ kv.calls[i].pc = "connect"
  /\ kv' = [kv EXCEPT !.calls[i] = KvConnectFailed(@)]
  /\ UNCHANGED exceptKv

\* The timer fired: attempt++ and the next sql.connect(dbConfig).
KvBackoffElapses(i) ==
  /\ kv.calls[i].pc = "backoff"
  /\ kv' = [kv EXCEPT !.calls[i] =
       [@ EXCEPT !.attempt = @ + 1, !.pc = "connect", !.delay = 0,
                 !.nAad = IF kv.calls[i].mode = "aad" THEN @ + 1 ELSE @,
                 !.nSql = IF kv.calls[i].mode = "sql" THEN @ + 1 ELSE @]]
  /\ UNCHANGED exceptKv

\* The caller is done with the outcome.
KvCallEnds(i) ==
  /\ kv.calls[i].pc \in {"returned", "threw"}
  /\ kv' = [kv EXCEPT !.calls[i] = KvIdle]
  /\ UNCHANGED exceptKv

NextKv ==
  \/ \E i \in KvCalls : KvCall(i)
  \/ \E i \in KvCalls, ok \in BOOLEAN : KvConfigSettles(i, ok)
  \/ \E i \in KvCalls, ok \in BOOLEAN : KvTokenSettles(i, ok)
  \/ \E i \in KvCalls : KvConnectSucceeds(i)
  \/ \E i \in KvCalls : KvConnectFails(i)
  \/ \E i \in KvCalls : KvBackoffElapses(i)
  \/ \E i \in KvCalls : KvCallEnds(i)

InitKv ==
  /\ InitCore(HostedEnvironment, TRUE) /\ RaceAtRest /\ WebAtRest /\ FormAtRest
  /\ kv = [pool |-> 0, calls |-> [i \in KvCalls |-> KvIdle]]

SpecKv == InitKv /\ [][NextKv]_vars

\* ------------------------------------------------------------------------
\* The registration endpoints (POST /submit-advanced-info, /submit-phoneVer,
\* /api/volunteers)
\* ------------------------------------------------------------------------
\* Requests: each field of the body (or of the session) present or absent.
Requests ==
  [route : {"/submit-advanced-info", "/volunteers"},
   email : {Undefined, "", "ann@example.org"}, password : {Undefined, "correct horse"},
   phone : {Undefined}]
  \cup
  [route : {"/submit-phoneVer"}, email : {Undefined}, password : {Undefined},
   phone : {Undefined, "(518) 555-0101"}]

\* What the driver rejects a statement with (err.number, err.message), and
\* what crypto.pbkdf2Sync throws for a password that is not a string.
DriverErrors ==
  { [number |-> 2627, message |-> "Violation of UNIQUE KEY constraint 'UQ_volunteer_phone'."],
    [number |-> 0, message |-> "Login failed for user '<token-identified principal>'."] }
PasswordTypeError ==
  [number |-> 0, message |-> "The \"password\" argument must be of type string. Received undefined"]

\* What the awaited data-access function can settle with.
Outcomes(fn, req) ==
  IF fn = "insertEmailPass" /\ req.password = Undefined
    THEN {[kind |-> "threw", err |-> PasswordTypeError]}
    ELSE {[kind |-> "threw", err |-> e] : e \in DriverErrors}
           \cup (IF fn = "namePhoneExists"
                   THEN {[kind |-> "bool", value |-> b] : b \in BOOLEAN}
                   ELSE {[kind |-> "row", id |-> "1"], [kind |-> "null", id |-> Undefined]})

\* res.status(s).send(text) / .json({...}): the literal text and what is
\* appended to it.
Sent(s, text, appended) == [status |-> s, fixed |-> text, detail |-> appended]

\* Express's default error handler: 500 with the stack (message included)
\* unless NODE_ENV is production.
DefaultErrorHandler(err, production) ==
  IF production THEN Sent(500, "Internal Server Error", "")
               ELSE Sent(500, "", err.message)

Awaits(fn) == [pc |-> fn, cause |-> "none"]
Responded(cause) == [pc |-> "responded", cause |-> cause]

\* A request arrives and its handler runs up to its first await or its
\* response.  cause records what the handler met: a missing input, an
\* "already exists" or "not found" result, a duplicate-key error, another
\* failure.
Receive(req) ==
  /\ request.route = "none"
  /\ request' = req
  /\ CASE req.route = "/submit-advanced-info" ->
            handler' = Awaits("insertEmailPass") /\ response' = NoResponse
       [] req.route = "/volunteers" ->
            IF ~Truthy(req.email) \/ ~Truthy(req.password)
              THEN /\ handler' = Responded("missing")
                   /\ response' = Sent(400, "Email and password are required.", "")
              ELSE handler' = Awaits("insertEmailPass") /\ response' = NoResponse
       [] req.route = "/submit-phoneVer" ->
            IF session = Undefined
              THEN /\ handler' = Responded("missing")
                   /\ response' = Sent(400, "Session expired or user not registered.", "")
              ELSE IF req.phone = Undefined
                THEN handler' = [pc |-> "rejected", cause |-> "missing"]
                     /\ response' = NoResponse
                ELSE handler' = Awaits("namePhoneExists") /\ response' = NoResponse
  /\ UNCHANGED <<exceptHttp, session, isProd>>

\* The catch block of the route.
CatchBlock(route, err, production) ==
  CASE route = "/submit-advanced-info" ->
         Sent(500, "Registration failed: ", err.message)
    [] route = "/submit-phoneVer" -> Sent(500, "Server error: ", err.message)
    [] route = "/volunteers" ->
         IF err.number = 2627 \/ err.number = 2601
           THEN Sent(409, "Email already registered.", "")
           ELSE DefaultErrorHandler(err, production)

\* The awaited data-access call settles and the handler runs on.
DataAccessSettles(out) ==
  /\ handler.pc \in {"insertEmailPass", "namePhoneExists", "insertNameAndPhone"}
  /\ out \in Outcomes(handler.pc, request)
  /\ session' = IF request.route = "/submit-advanced-info" /\ out.kind = "row"
                  THEN out.id ELSE session
  /\ IF out.kind = "threw"
       THEN /\ response' = CatchBlock(request.route, out.err, isProd)
            /\ handler' = Responded(IF out.err.number = 2627 THEN "duplicate key"
                                                              ELSE "failure")
       ELSE CASE handler.pc = "insertEmailPass" /\ out.kind = "null" ->
                   /\ response' = Sent(409, "Email already registered.", "")
                   /\ handler' = Responded("exists")
              [] handler.pc = "insertEmailPass" /\ out.kind = "row" ->
                   /\ response' = IF request.route = "/volunteers"
                                    THEN Sent(201, "", "") ELSE Sent(302, "/volunteerIn", "")
                   /\ handler' = Responded("none")
              [] handler.pc = "namePhoneExists" /\ out.value ->
                   /\ response' = Sent(200, "Duplicate record exists", "")
                   /\ handler' = Responded("exists")
              [] handler.pc = "namePhoneExists" /\ ~out.value ->
                   /\ response' = NoResponse
                   /\ handler' = Awaits("insertNameAndPhone")
              [] handler.pc = "insertNameAndPhone" /\ out.kind = "null" ->
                   /\ response' = Sent(409, "Update failed. Record may not exist.", "")
                   /\ handler' = Responded("not found")
              [] handler.pc = "insertNameAndPhone" /\ out.kind = "row" ->
                   /\ response' = Sent(200, "Info updated successfully", "")
                   /\ handler' = Responded("none")
  /\ UNCHANGED <<exceptHttp, request, isProd>>

\* phone.replace threw outside the try block: the promise of the async
\* handler is rejected.  Express 4 ignores it and nothing is ever sent;
\* Express 5 passes the error to the default error handler.
HandlerRejected(major) ==
  /\ handler.pc = "rejected"
  /\ IF major = 4
       THEN /\ handler' = [handler EXCEPT !.pc = "hung"]
            /\ response' = NoResponse
       ELSE /\ handler' = Responded(handler.cause)
            /\ response' = DefaultErrorHandler(
                 [number |-> 0, message |-> "Cannot read properties of undefined (reading 'replace')"],
                 isProd)
  /\ UNCHANGED <<exceptHttp, request, session, isProd>>

\* The exchange is over (or the client gave up on a request never answered).
RequestEnds ==
  /\ handler.pc \in {"responded", "hung"}
  /\ request' = NoRequest
  /\ handler' = NotRunning
  /\ response' = NoResponse
  /\ UNCHANGED <<exceptHttp, session, isProd>>

NextHttp ==
  \/ \E req \in Requests : Receive(req)
  \/ \E out \in Outcomes(handler.pc, request) : DataAccessSettles(out)
  \/ \E major \in {4, 5} : HandlerRejected(major)
  \/ RequestEnds

\* NODE_ENV is production in the container and unset elsewhere.
InitHttp == \E production \in BOOLEAN : InitAs(HostedEnvironment, production)

SpecHttp == InitHttp /\ [][NextHttp]_vars

\* ------------------------------------------------------------------------
\* verifyEmail (the Kickbox call)
\* ------------------------------------------------------------------------
Verifies == 1..MaxVerifies

\* new Error(message), and the errors fetch and resp.json() reject with.
Error(message) == [name |-> "Error", message |-> message]
AbortError == [name |-> "AbortError", message |-> "This operation was aborted"]
NetworkError == [name |-> "TypeError", message |-> "fetch failed"]
ParseError == [name |-> "SyntaxError", message |-> "Unexpected token < in JSON at position 0"]

\* The responses that are not ok: status and statusText.
NotOk == {<<"404", "Not Found">>, <<"503", "Service Unavailable">>}

\* `Kickbox API error ${resp.status} ${resp.statusText}`
ApiErrorMessage(st) == "Kickbox API error " \o st[1] \o " " \o st[2]

Rethrown_AsIs(err) == err

\* catch (err) { if (err.name === 'AbortError') throw new Error('Kickbox API
\* request timed out'); throw err; }
Rethrown(err) ==
  IF err.name = "AbortError" THEN Error("Kickbox API request timed out") ELSE err

\* clearTimeout(t): a timer that has not fired never will.
Cleared(timer) == IF timer = "armed" THEN "cleared" ELSE timer

\* The call leaves through catch and finally with err thrown in its try block.
Caught(f, err) ==
  [f EXCEPT !.pc = "threw", !.outcome = Rethrown(err), !.timer = Cleared(@)]

\* verifyEmail(email) up to "await fetch(...)", or to its throw when the API
\* key is not set.
verifyEmail(v, email) ==
  /\ verifying[v].pc = "idle"
  /\ verifying' = [verifying EXCEPT ![v] =
       IF ~Truthy(KICKBOX_API_KEY)
         THEN [@ EXCEPT !.pc = "threw", !.email = email,
                        !.outcome = Error("KICKBOX_API_KEY missing")]
         ELSE [@ EXCEPT !.pc = "fetch", !.email = email, !.timer = "armed"]]
  /\ UNCHANGED <<exceptVerify, KICKBOX_API_KEY>>

\* setTimeout(() => controller.abort(), timeoutMs) fires.
TimerFires(v) ==
  /\ verifying[v].timer = "armed"
  /\ verifying' = [verifying EXCEPT ![v].timer = "fired", ![v].aborted = TRUE]
  /\ UNCHANGED <<exceptVerify, KICKBOX_API_KEY>>

\* fetch resolved with a response: not ok throws, ok goes on to resp.json().
FetchResolves(v, ok) ==
  /\ verifying[v].pc = "fetch"
  /\ ~verifying[v].aborted
  /\ IF ok
       THEN verifying' = [verifying EXCEPT ![v].pc = "json"]
       ELSE \E st \in NotOk :
              verifying' = [verifying EXCEPT ![v] = Caught(@, Error(ApiErrorMessage(st)))]
  /\ UNCHANGED <<exceptVerify, KICKBOX_API_KEY>>

\* fetch rejected: with an AbortError once the signal is aborted, with a
\* network failure before.
FetchRejects(v) ==
  /\ verifying[v].pc = "fetch"
  /\ verifying' = [verifying EXCEPT ![v] =
       Caught(@, IF @.aborted THEN AbortError ELSE NetworkError)]
  /\ UNCHANGED <<exceptVerify, KICKBOX_API_KEY>>

\* resp.json() resolved (the call returns the data) or rejected on a body
\* that is not JSON.
BodyRead(v, ok) ==
  /\ verifying[v].pc = "json"
  /\ ~verifying[v].aborted
  /\ verifying' = [verifying EXCEPT ![v] =
       IF ok THEN [@ EXCEPT !.pc = "returned", !.timer = Cleared(@)]
             ELSE Caught(@, ParseError)]
  /\ UNCHANGED <<exceptVerify, KICKBOX_API_KEY>>

\* resp.json() rejected because the signal was aborted while the body was read.
BodyAborted(v) ==
  /\ verifying[v].pc = "json"
  /\ verifying[v].aborted
  /\ verifying' = [verifying EXCEPT ![v] = Caught(@, AbortError)]
  /\ UNCHANGED <<exceptVerify, KICKBOX_API_KEY>>

\* The caller is done with the result.
VerifyEnds(v) ==
  /\ verifying[v].pc \in {"returned", "threw"}
  /\ verifying' = [verifying EXCEPT ![v] = NotVerifying]
  /\ UNCHANGED <<exceptVerify, KICKBOX_API_KEY>>

NextVerify ==
  \/ \E v \in Verifies, e \in Emails : verifyEmail(v, e)
  \/ \E v \in Verifies : TimerFires(v)
  \/ \E v \in Verifies, ok \in BOOLEAN : FetchResolves(v, ok)
  \/ \E v \in Verifies : FetchRejects(v)
  \/ \E v \in Verifies, ok \in BOOLEAN : BodyRead(v, ok)
  \/ \E v \in Verifies : BodyAborted(v)
  \/ \E v \in Verifies : VerifyEnds(v)

\* The API key is set or not when the process starts.
InitVerify ==
  \E key \in {Undefined, "test_0123456789"} :
    /\ InitManager(HostedEnvironment) /\ InitData /\ InitRoutes(TRUE)
    /\ InitKickbox(key) /\ InitStarted /\ InitTokenOnly /\ InitRest

SpecVerify == InitVerify /\ [][NextVerify]_vars

\* ------------------------------------------------------------------------
\* The token-only getSqlPool (src/lib/sql.js): no in-flight marker, no retry
\* ------------------------------------------------------------------------
\* sqlJs._pool is the stored pool (0: undefined), sqlJs.connected the pools
\* whose connected flag is set, sqlJs.nextPool the number the next
\* ConnectionPool gets.  A call is idle, inside "await getSqlAccessToken()"
\* (pc "token"), inside "await new sql.ConnectionPool(config).connect()" on
\* pool got (pc "connect"), or settled ("returned" with got, "threw"); seen is
\* the _pool its "if" read.
TokenCalls == 1..MaxTokenCalls

\* if (_pool && _pool.connected)
StoredPoolUsable == sqlJs._pool # 0 /\ sqlJs._pool \in sqlJs.connected

\* getSqlPool() up to its return of the stored pool or its first await.
TokenOnlyCall(i) ==
  /\ sqlJs.calls[i].pc = "idle"
  /\ sqlJs' = [sqlJs EXCEPT !.calls[i] =
       IF StoredPoolUsable
         THEN [pc |-> "returned", seen |-> sqlJs._pool, got |-> sqlJs._pool]
         ELSE [pc |-> "token", seen |-> sqlJs._pool, got |-> 0]]
  /\ UNCHANGED exceptTokenOnly

\* credential.getToken resolved: the pool is constructed, connect() is issued.
TokenOnlyTokenArrives(i) ==
  /\ sqlJs.calls[i].pc = "token"
  /\ sqlJs.nextPool <= MaxTokenPools
  /\ sqlJs' = [sqlJs EXCEPT !.calls[i] = [@ EXCEPT !.pc = "connect", !.got = sqlJs.nextPool],
                            !.nextPool = @ + 1]
  /\ UNCHANGED exceptTokenOnly

\* credential.getToken rejected: the catch block logs and rethrows.
TokenOnlyTokenFails(i) ==
  /\ sqlJs.calls[i].pc = "token"
  /\ sqlJs' = [sqlJs EXCEPT !.calls[i] = [@ EXCEPT !.pc = "threw", !.got = 0]]
  /\ UNCHANGED exceptTokenOnly

\* connect() resolved: _pool = <the pool>; return _pool;
TokenOnlyConnectSucceeds(i) ==
  /\ sqlJs.calls[i].pc = "connect"
  /\ sqlJs' = [sqlJs EXCEPT !._pool = sqlJs.calls[i].got,
                            !.connected = @ \cup {sqlJs.calls[i].got},
                            !.calls[i] = [@ EXCEPT !.pc = "returned"]]
  /\ UNCHANGED exceptTokenOnly

\* connect() rejected: the catch block logs and rethrows.
TokenOnlyConnectFails(i) ==
  /\ sqlJs.calls[i].pc = "connect"
  /\ sqlJs' = [sqlJs EXCEPT !.calls[i] = [@ EXCEPT !.pc = "threw", !.got = 0]]
  /\ UNCHANGED exceptTokenOnly

\* The caller is finished with the outcome of its call.
TokenOnlyCallEnds(i) ==
  /\ sqlJs.calls[i].pc \in {"returned", "threw"}
  /\ sqlJs' = [sqlJs EXCEPT !.calls[i] = NotCalled]
  /\ UNCHANGED exceptTokenOnly

\* The driver reports the stored pool as no longer connected.
TokenOnlyDisconnects ==
  /\ StoredPoolUsable
  /\ sqlJs' = [sqlJs EXCEPT !.connected = @ \ {sqlJs._pool}]
  /\ UNCHANGED exceptTokenOnly

NextTokenOnly ==
  \/ \E i \in TokenCalls : TokenOnlyCall(i)
  \/ \E i \in TokenCalls : TokenOnlyTokenArrives(i)
  \/ \E i \in TokenCalls : TokenOnlyTokenFails(i)
  \/ \E i \in TokenCalls : TokenOnlyConnectSucceeds(i)
  \/ \E i \in TokenCalls : TokenOnlyConnectFails(i)
  \/ \E i \in TokenCalls : TokenOnlyCallEnds(i)
  \/ TokenOnlyDisconnects

InitTokenOnlyModule == InitIn({HostedEnvironment})

SpecTokenOnly == InitTokenOnlyModule /\ [][NextTokenOnly]_vars

\* ------------------------------------------------------------------------
\* Properties of the pool manager
\* ------------------------------------------------------------------------
\* A connectWithRetry call that has not returned or thrown yet.
Running(c) == cycles[c].pc \in {"token", "connect", "backoff"}

\* A cycle whose promise has not settled: running, or waiting for its handler.
Unsettled(c) == cycles[c].pc \in {"token", "connect", "backoff", "resolved", "threw"}

\* A step in which a caller called getSqlPool.
IsCall == BagCardinality(callers') = BagCardinality(callers) + 1

\* The caller that came or came to a new position in this step.
NewIn(k) == CopiesIn(k, callers') > CopiesIn(k, callers)

\* C1: at most one connectWithRetry cycle is in flight in any reachable state,
\* hence at most one pool.connect() is pending, whatever the interleaving of
\* calls, closes, connect outcomes and health changes.
C1_SingleCycleInFlight ==
  /\ Cardinality({c \in Cycles : Unsettled(c)}) <= 1
  /\ Cardinality({c \in Cycles : cycles[c].pc = "connect"}) <= 1

\* C1 witness: a second cycle is connecting while a caller still waits, after
\* the first cycle's pool was stored and then closed.
C1_Witness ==
  /\ cycles[2].pc = "connect"
  /\ cycles[1].pc = "done"
  /\ 1 \in closeCalled
  /\ \E k \in ActiveCallers : k.pc = "awaiting" /\ k.awaits = 2

\* C2: calls issued while a cycle is unsettled and no usable pool is stored
\* start no further cycle and are handed that cycle's promise; all callers of
\* one cycle get one outcome, the pool that cycle connected or its error.
C2_SameOutcomeInv ==
  /\ \A k1, k2 \in ActiveCallers :
       (k1.pc = "done" /\ k2.pc = "done" /\ k1.awaits # 0 /\ k1.awaits = k2.awaits)
         => k1.got = k2.got
  /\ \A k \in ActiveCallers :
       (k.pc = "done" /\ k.awaits # 0) =>
         \/ k.got.state = "fulfilled" /\ k.got.pool = k.awaits
         \/ k.got.state = "rejected" /\ k.got.err.cyc = k.awaits
  /\ \A k \in ActiveCallers :
       (k.pc = "awaiting" /\ k.awaits # 0 /\ promise[k.awaits].state = "pending")
         => Unsettled(k.awaits)

C2_JoinStep ==
  (IsCall /\ ~(_pool # 0 /\ connected[_pool]) /\ \E c \in Cycles : Unsettled(c))
    => /\ nextCycle' = nextCycle
       /\ cycles' = cycles
       /\ \E c \in Cycles : Unsettled(c) /\ NewIn(Awaiting(c, 0))

\* C2: C2_SameOutcomeInv holds in every state and C2_JoinStep of every step.
C2_ConcurrentCallsShareOneCycle == [](C2_SameOutcomeInv) /\ [][C2_JoinStep]_vars

\* C2 witness: two callers that awaited the same cycle have both resumed with
\* its rejection.
C2_Witness ==
  \E k \in ActiveCallers :
    /\ k.pc = "done" /\ k.awaits = 1 /\ k.got.state = "rejected"
    /\ CopiesIn(k, callers) >= 2

\* C3: a cycle all of whose attempts fail with a transient error makes exactly
\* maxAttempts = 4 attempts, no cycle ever makes more, and it throws the error
\* of the 4th attempt.
C3_ExactlyFourAttempts ==
  \A c \in Cycles :
    /\ cycles[c].attempt <= 4
    /\ cycles[c].nConnect + cycles[c].nTokFail <= 4
    /\ (cycles[c].pc = "threw" /\ cycles[c].allTransient) =>
         /\ cycles[c].attempt = 4
         /\ cycles[c].nConnect + cycles[c].nTokFail = 4
         /\ cycles[c].lastErr.att = 4
         /\ cycles[c].lastErr.cyc = c
    /\ (promise[c].state = "rejected"
          /\ (promise[c].err.code = "ETIMEDOUT" \/ promise[c].err.message = "Socket Hang Up"))
         => promise[c].err.att = 4 /\ promise[c].err.cyc = c

\* C3 witness: a cycle has thrown after four pool.connect() calls that all
\* failed with a transient error.
C3_Witness ==
  \E c \in Cycles :
    /\ cycles[c].pc = "threw" /\ cycles[c].allTransient
    /\ cycles[c].nConnect = 4 /\ cycles[c].lastErr.code = "ETIMEDOUT"

\* C4: after a non-transient failure in attempt k the cycle makes no further
\* attempt and no backoff wait (it has waited only after the k - 1 earlier
\* failures), and its promise rejects with exactly that error.
C4_NonTransientInv ==
  \A c \in Cycles :
    (cycles[c].lastErr.code = "ELOGIN" \/ cycles[c].lastErr.message = NoTokenMessage) =>
      /\ cycles[c].pc = "threw"
      /\ cycles[c].lastErr.att = cycles[c].attempt
      /\ cycles[c].lastErr.cyc = c
      /\ cycles[c].nWait = cycles[c].attempt - 1
      /\ cycles[c].nConnect + cycles[c].nTokFail = cycles[c].attempt
      /\ cycles[c].delay = 0

C4_RejectsWithThatError ==
  \A c \in Cycles :
    (cycles[c].pc = "threw" /\ cycles'[c].pc # "threw") =>
      promise'[c] = Rejected(cycles[c].lastErr)

\* C4: C4_NonTransientInv holds in every state and C4_RejectsWithThatError of
\* every step.
C4_NonTransientShortCircuit ==
  [](C4_NonTransientInv) /\ [][C4_RejectsWithThatError]_vars

\* C4 witness: a caller received the login error that the second attempt of
\* its cycle failed with.
C4_Witness ==
  \E k \in ActiveCallers :
    /\ k.pc = "done" /\ k.got.state = "rejected"
    /\ k.got.err.code = "ELOGIN" /\ k.got.err.att = 2 /\ k.got.err.cyc = k.awaits

\* C5: a getSqlPool call made while the stored pool reports connected returns
\* the stored pool and changes nothing of the manager: no cycle, no connect
\* attempt, no token fetch.
C5_ReuseStep ==
  (IsCall /\ _pool # 0 /\ connected[_pool]) =>
    /\ NewIn(Awaiting(0, _pool))
    /\ Awaiting(0, _pool).got = Fulfilled(_pool)
    /\ UNCHANGED <<_pool, _connectingPromise, nextCycle, cycles, promise,
                   connected, closeCalled, closers>>

\* C5: every step satisfies C5_ReuseStep.
C5_IdempotentReuse == [][C5_ReuseStep]_vars

\* C5 witness: two calls made while the stored pool was connected both hold it.
C5_Witness ==
  /\ _pool # 0 /\ connected[_pool]
  /\ CopiesIn(Awaiting(0, _pool), callers) >= 2


\* C6: when a cycle fails, the marker is cleared in the step that rejects its
\* promise (so before any caller resumes with the rejection), callers resume
\* with exactly the promise's outcome, the failure leaves the stored pool as it
\* was, and a call made when no cycle is unsettled and no usable pool is
\* stored starts a new cycle on its first attempt with no error remembered.
C6_FailureInv ==
  /\ \A c \in Cycles :
       promise[c].state = "rejected" => (_connectingPromise # c /\ cycles[c].pc = "done")
  /\ \A k \in ActiveCallers :
       (k.pc = "done" /\ k.got.state = "rejected") =>
         (_connectingPromise # k.awaits /\ k.got.err.cyc = k.awaits)

C6_FailureSteps ==
  /\ \A c \in Cycles :
       (cycles[c].pc = "threw" /\ cycles'[c].pc # "threw") =>
         /\ _connectingPromise' = 0
         /\ promise'[c].state = "rejected"
         /\ promise'[c].err = cycles[c].lastErr
         /\ _pool' = _pool
  /\ \A k \in BagToSet(callers') :
       (NewIn(k) /\ k.pc = "done" /\ k.awaits # 0) =>
         (promise[k.awaits].state # "pending" /\ k.got = promise[k.awaits])
  /\ (IsCall /\ ~(_pool # 0 /\ connected[_pool]) /\ ~\E c \in Cycles : Unsettled(c)) =>
       /\ nextCycle' = nextCycle + 1
       /\ cycles'[nextCycle].attempt = 1
       /\ cycles'[nextCycle].lastErr = NoErr
       /\ cycles'[nextCycle].pc \in {"token", "connect"}
       /\ NewIn(Awaiting(nextCycle, 0))

\* C6: C6_FailureInv holds in every state and C6_FailureSteps of every step.
C6_FailureNotCached == [](C6_FailureInv) /\ [][C6_FailureSteps]_vars

\* C6 witness: a caller holds the rejection of cycle 1 while cycle 2, started
\* by a later call, is under way.
C6_Witness ==
  /\ Unsettled(2)
  /\ \E k \in ActiveCallers : k.pc = "done" /\ k.awaits = 1 /\ k.got.state = "rejected"

\* C7: a cycle is started only by a getSqlPool call, and when a pool is stored
\* only by a call that finds it not connected; the new cycle starts on its own
\* first attempt, and every cycle that throws after transient failures only
\* has made all 4 attempts.
C7_NewCycleStep ==
  /\ (nextCycle' # nextCycle) =>
       /\ IsCall
       /\ nextCycle' = nextCycle + 1
       /\ _pool # 0 => ~connected[_pool]
       /\ cycles[nextCycle].pc = "none"
       /\ cycles'[nextCycle].attempt = 1
       /\ cycles'[nextCycle].nWait = 0
       /\ cycles'[nextCycle].nConnect + cycles'[nextCycle].nFetch = 1
       /\ cycles'[nextCycle].lastErr = NoErr
  /\ \A c \in Cycles :
       (cycles[c].pc = "none" /\ cycles'[c].pc # "none") => nextCycle' # nextCycle
  /\ \A c \in Cycles :
       (cycles[c].pc = "backoff" /\ cycles[c].attempt < 4 /\ cycles'[c] # cycles[c]) =>
         (cycles'[c].attempt = cycles[c].attempt + 1 /\ cycles'[c].pc \in {"token", "connect"})

\* C7: every step satisfies C7_NewCycleStep.
C7_ReconnectIsFreshCycle == [][C7_NewCycleStep]_vars

\* C7 witness: the stored pool of cycle 1 is no longer connected and cycle 2
\* is in its fourth attempt.
C7_Witness ==
  /\ _pool = 1 /\ ~connected[1]
  /\ cycles[2].pc = "connect" /\ cycles[2].attempt = 4

\* C8: the configuration of every connect attempt carries exactly one
\* authentication variant: the App Service managed identity when hosted (with
\* the client id exactly when a non-empty one is set, whatever the force flag),
\* else the token credential unless the force flag is set, else the explicit
\* access token.
C8_OneAuthVariant ==
  \A c \in Cycles :
    cycles[c].pc = "connect" =>
      LET a == cycles[c].config IN
      IF IS_APP_SERVICE
        THEN /\ a.type = "azure-active-directory-msi-app-service"
             /\ IF USER_ASSIGNED_CLIENT_ID \notin {Undefined, ""}
                  THEN a.options = [clientId |-> USER_ASSIGNED_CLIENT_ID]
                  ELSE DOMAIN a.options = {}
        ELSE IF ~SQL_FORCE_ACCESS_TOKEN
          THEN a.type = "token-credential" /\ DOMAIN a.options = {"credential"}
          ELSE /\ a.type = "azure-active-directory-access-token"
               /\ DOMAIN a.options = {"token"}

\* C8 witness: hosted with a client id and the force flag set, a connect
\* attempt runs with the managed identity carrying that client id.
C8_Witness ==
  /\ IS_APP_SERVICE /\ SQL_FORCE_ACCESS_TOKEN /\ USER_ASSIGNED_CLIENT_ID = "11111111-aaaa"
  /\ cycles[1].pc = "connect"
  /\ cycles[1].config.options = [clientId |-> "11111111-aaaa"]

\* C9: in explicit-token mode pool.connect() is never issued without a token;
\* an attempt whose token fetch returns no token fails with the no-token error
\* without a pool.connect() call, and the cycle throws that error at once: no
\* backoff wait, no further attempt.
C9_NoTokenInv ==
  \A c \in Cycles :
    /\ (cycles[c].pc = "connect" /\ ~IS_APP_SERVICE /\ SQL_FORCE_ACCESS_TOKEN) =>
         cycles[c].config.options.token.val \notin {Undefined, ""}
    /\ cycles[c].lastErr.message = NoTokenMessage =>
         /\ ~IS_APP_SERVICE /\ SQL_FORCE_ACCESS_TOKEN
         /\ cycles[c].pc = "threw"
         /\ cycles[c].lastErr.att = cycles[c].attempt
         /\ cycles[c].nTokFail >= 1
         /\ cycles[c].nConnect = cycles[c].attempt - cycles[c].nTokFail
         /\ cycles[c].nWait = cycles[c].attempt - 1
         /\ cycles[c].delay = 0

C9_NoTokenStep ==
  \A c \in Cycles :
    (cycles[c].pc = "token" /\ cycles'[c].lastErr.message = NoTokenMessage
       /\ cycles'[c] # cycles[c]) =>
      (cycles'[c].nConnect = cycles[c].nConnect /\ cycles'[c].pc = "threw")

\* C9: C9_NoTokenInv holds in every state and C9_NoTokenStep of every step.
C9_NoTokenEndsCycle == [](C9_NoTokenInv) /\ [][C9_NoTokenStep]_vars

\* C9 witness: the second attempt of a cycle got no token after the first
\* attempt's connect had failed, and the cycle has thrown.
C9_Witness ==
  \E c \in Cycles :
    /\ cycles[c].pc = "threw" /\ cycles[c].lastErr.message = NoTokenMessage
    /\ cycles[c].attempt = 2 /\ cycles[c].nConnect = 1

\* C10: a configuration exists only while its own attempt's pool.connect() is
\* pending; in explicit-token mode every attempt made its own token fetch
\* (fetches = attempts) and the token of a pending connect is the one fetched
\* in that attempt of that cycle.
C10_FreshConfigPerAttempt ==
  \A c \in Cycles :
    /\ (cycles[c].pc = "connect") <=> (cycles[c].config # NoConfig)
    /\ (~IS_APP_SERVICE /\ SQL_FORCE_ACCESS_TOKEN /\ Unsettled(c)) =>
         /\ cycles[c].nFetch = cycles[c].attempt
         /\ cycles[c].nConnect <= cycles[c].nFetch
         /\ cycles[c].pc = "connect" =>
              /\ cycles[c].config.options.token.cyc = c
              /\ cycles[c].config.options.token.att = cycles[c].attempt

\* C10 witness: the third attempt of the second cycle connects with the token
\* fetched in that attempt.
C10_Witness ==
  /\ ~IS_APP_SERVICE /\ SQL_FORCE_ACCESS_TOKEN
  /\ cycles[2].pc = "connect" /\ cycles[2].attempt = 3
  /\ cycles[2].config.options.token = [val |-> "jwt", cyc |-> 2, att |-> 3]


\* C11: the backoff timer armed after the failure of attempt a runs for
\* min(5000 * a, 15000) ms: 5000, 10000, 15000, 15000 for a = 1..4; no timer
\* runs longer than 15000 ms and no timer is shorter than the one before it.
C11_BackoffDelayInv ==
  \A c \in Cycles :
    /\ cycles[c].delay <= 15000
    /\ cycles[c].pc = "backoff" =>
         /\ cycles[c].attempt \in 1..4
         /\ cycles[c].delay = CASE cycles[c].attempt = 1 -> 5000
                                [] cycles[c].attempt = 2 -> 10000
                                [] OTHER -> 15000
    /\ cycles[c].pc # "backoff" => cycles[c].delay = 0

C11_BackoffDelayStep ==
  \A c \in Cycles :
    (cycles'[c].pc = "backoff" /\ cycles[c].pc # "backoff" /\ cycles[c].attempt >= 2) =>
      cycles'[c].delay >= (IF cycles[c].attempt = 2 THEN 5000
                           ELSE IF cycles[c].attempt = 3 THEN 10000 ELSE 15000)

\* C11: C11_BackoffDelayInv holds in every state and C11_BackoffDelayStep of
\* every step.
C11_BackoffDelays == [](C11_BackoffDelayInv) /\ [][C11_BackoffDelayStep]_vars

\* C11 witness: the timer after the failure of the fourth attempt runs 15000 ms.
C11_Witness ==
  \E c \in Cycles :
    cycles[c].pc = "backoff" /\ cycles[c].attempt = 4 /\ cycles[c].delay = 15000


\* A step in which closeSqlPool found a pool stored and invoked close() on it.
ClosePending == BagCardinality(closers') = BagCardinality(closers) + 1

\* A step in which a closeSqlPool call that awaited close() resolved.
CloseResolves == BagCardinality(closers') = BagCardinality(closers) - 1

\* A step in which closeSqlPool found no pool stored and resolved at once.
CloseOfNothing == closers' = closers /\ closeResolved' /\ ~closeResolved

\* C12, its first sentence: closeSqlPool invokes close() once on the stored
\* pool, resolves with the stored reference null whether close() resolved or
\* threw, and changes nothing when no pool is stored.
C12_CloseStep ==
  /\ ClosePending =>
       /\ _pool # 0
       /\ closers' = closers (+) SetToBag({_pool})
       /\ closeCalled' = closeCalled \cup {_pool}
       /\ UNCHANGED mgrVars
  /\ CloseResolves => _pool' = 0 /\ UNCHANGED <<_connectingPromise, nextCycle, cycles>>
  /\ CloseOfNothing => _pool = 0 /\ UNCHANGED <<mgrVars, connected, closeCalled, callers>>

C12_CloseResets == [][C12_CloseStep]_vars

\* C12, its second sentence: the first getSqlPool call after a closeSqlPool
\* call resolved starts a new connection cycle.
C12_NextCallStep ==
  (IsCall /\ closeResolved) =>
     /\ nextCycle' = nextCycle + 1
     /\ _connectingPromise' = nextCycle
     /\ cycles'[nextCycle].pc \in {"token", "connect"}

\* C12: closeSqlPool closes the stored pool once, resolves with the stored
\* reference null whatever close() did, changes nothing without a stored pool,
\* and the next getSqlPool call after it starts a new connection cycle.
C12_CloseThenFreshCycle == [][C12_CloseStep /\ C12_NextCallStep]_vars

\* A getSqlPool call right after closeSqlPool resolved that joins a cycle
\* which was in flight all along.
C12_JoinsAfterClose ==
  closeResolved /\ _pool = 0 /\ _connectingPromise # 0 /\ closeCalled # {}


\* ------------------------------------------------------------------------
\* Properties of healthProbe, whoAmI, query and exec
\* ------------------------------------------------------------------------
\* C13: while the stored pool is connected, no step of a healthProbe or whoAmI
\* call (the call, its resumption, its query resolving or rejecting) changes
\* the stored pool reference or the in-flight marker or starts or advances a
\* connection cycle.
C13_ProbeStep ==
  \A k \in BagToSet(callers') :
    (NewIn(k) /\ k.op \in {"healthProbe", "whoAmI"} /\ _pool # 0 /\ connected[_pool]) =>
      /\ _pool' = _pool
      /\ _connectingPromise' = _connectingPromise
      /\ nextCycle' = nextCycle
      /\ cycles' = cycles

\* C13: every step satisfies C13_ProbeStep.
C13_ProbesLeaveManagerAlone == [][C13_ProbeStep]_vars

\* C13 witness: a probe whose query was rejected, the stored pool still
\* connected and no cycle in flight.
C13_Witness ==
  /\ _pool # 0 /\ connected[_pool] /\ _connectingPromise = 0
  /\ \E k \in ActiveCallers :
       /\ k.op \in {"healthProbe", "whoAmI"}
       /\ k.awaits = 0
       /\ k.pc = "done" /\ k.outcome.state = "threw" /\ k.execs = 1

\* C14: a query or exec call runs its statement at most once: not at all when
\* getSqlPool rejected or bindParamsFn threw, once otherwise; what it throws is
\* the very error getSqlPool, bindParamsFn or req.query raised.
C14_SingleShotInv ==
  \A k \in ActiveCallers :
    k.op \in {"query", "exec"} =>
      /\ k.execs <= 1
      /\ k.pc = "awaiting" => k.execs = 0 /\ k.outcome.state = "pending"
      /\ k.pc = "querying" => k.execs = 1 /\ k.outcome.state = "pending"
      /\ k.pc = "done" =>
           /\ k.outcome.state \in {"returned", "threw"}
           /\ k.got.state = "rejected" =>
                k.execs = 0 /\ k.outcome = [state |-> "threw", err |-> k.got.err]
           /\ (k.got.state = "fulfilled" /\ k.bind = "throws") =>
                /\ k.execs = 0
                /\ k.outcome = [state |-> "threw", err |-> k.thrown]
                /\ k.thrown.code = "EPARAM"
           /\ (k.got.state = "fulfilled" /\ k.bind # "throws") =>
                /\ k.execs = 1
                /\ k.thrown.code = Undefined => k.outcome.state = "returned"
                /\ k.thrown.code # Undefined =>
                     k.outcome = [state |-> "threw", err |-> k.thrown]

\* C14: once a query or exec call has its pool, no step of it touches the
\* stored pool reference, the marker or any connection cycle.
C14_SingleShotStep ==
  \A k \in BagToSet(callers') :
    (NewIn(k) /\ k.op \in {"query", "exec"} /\ k.pc # "awaiting") =>
      /\ _pool' = _pool
      /\ _connectingPromise' = _connectingPromise
      /\ nextCycle' = nextCycle
      /\ cycles' = cycles

\* C14: C14_SingleShotInv holds in every state and C14_SingleShotStep of every
\* step.
C14_ExecutorIsSingleShot == [](C14_SingleShotInv) /\ [][C14_SingleShotStep]_vars

\* C14 witness: a query whose bindParamsFn threw (statement never run) on a
\* connected stored pool.
C14_Witness ==
  /\ _pool # 0
  /\ \E k \in ActiveCallers :
       /\ k.op \in {"query", "exec"}
       /\ k.pc = "done" /\ k.bind = "throws" /\ k.got.state = "fulfilled"
       /\ k.execs = 0 /\ k.outcome.state = "threw"


\* ------------------------------------------------------------------------
\* Properties of the data-access functions
\* ------------------------------------------------------------------------
\* A call of fn that has returned or thrown.
Finished(fn) == dbCall.fn = fn /\ dbCall.pc = "returned"

\* The table holds at most one row per email.
OneRowPerEmail == \A r1, r2 \in table : r1.email = r2.email => r1 = r2

\* An insertEmailPass call that found a row with its email returns null and
\* adds nothing.
SecondInsertIsNull ==
  (Finished("insertEmailPass") /\ \E r \in dbCall.before : r.email = dbCall.args.email) =>
     dbCall.result = [kind |-> "null"] /\ table = dbCall.before

\* What of C15 holds whatever the table holds.
C15_NoDuplicateRow == OneRowPerEmail /\ SecondInsertIsNull

\* C15: an insertEmailPass call for an email no row holds returns the created
\* row, the next one for that email returns null, and the table never holds
\* two rows with one email.
C15_CreatedThenNull ==
  /\ OneRowPerEmail
  /\ SecondInsertIsNull
  /\ (Finished("insertEmailPass") /\ ~\E r \in dbCall.before : r.email = dbCall.args.email) =>
       /\ dbCall.result.kind = "row"
       /\ dbCall.result.row.email = dbCall.args.email
       /\ \E r \in table \ dbCall.before :
            r.id = dbCall.result.row.id /\ r.email = dbCall.args.email

\* An insertEmailPass call for a new email that threw: another row is still
\* waiting for its phone number.
C15_SecondRegistrantThrows ==
  /\ Finished("insertEmailPass")
  /\ dbCall.result.kind = "threw"
  /\ ~\E r \in dbCall.before : r.email = dbCall.args.email
  /\ \E r \in dbCall.before : r.phone = Null

\* C16: emailExists(e) returns exactly whether a row with email e is in the
\* table: false when there is none, true once insertEmailPass(e) has
\* returned a created row; it changes no row.
C16_EmailExistsIsMembership ==
  Finished("emailExists") =>
    /\ dbCall.result.kind = "bool"
    /\ dbCall.result.value = (\E r \in table : r.email = dbCall.args.email)
    /\ dbCall.args.email \in created => dbCall.result.value
    /\ table = dbCall.before

\* C16 witness: emailExists answered true for an email insertEmailPass
\* created, and false for another one.
C16_Witness ==
  /\ Finished("emailExists")
  /\ dbCall.args.email \in created
  /\ dbCall.result = [kind |-> "bool", value |-> TRUE]
  /\ \E e \in Emails : ~\E r \in table : r.email = e

\* The rows insertNameAndPhone's id selects, as the call found them.
Hit == {r \in dbCall.before : r.id = dbCall.args.id}

\* insertNameAndPhone returned the row r with the four profile columns set and
\* changed nothing else in the table.
UpdatedOnly(r) ==
  /\ dbCall.result.kind = "row"
  /\ dbCall.result.row = [r EXCEPT !.firstName = dbCall.args.profile.firstName,
                                   !.lastName = dbCall.args.profile.lastName,
                                   !.phone = dbCall.args.profile.phone,
                                   !.suffix = dbCall.args.profile.suffix]
  /\ table = (dbCall.before \ {r}) \cup {dbCall.result.row}

\* C17 as stated: no matching row: null, nothing changed; a matching row: the
\* updated row is returned and only its four profile columns changed.
C17_UpdateOrNull ==
  Finished("insertNameAndPhone") =>
    /\ Hit = {} => dbCall.result = [kind |-> "null"] /\ table = dbCall.before
    /\ \A r \in Hit : UpdatedOnly(r)

\* The phone number of the call is held by a row other than the one updated.
PhoneTaken ==
  \E o \in dbCall.before : o.id # dbCall.args.id /\ o.phone = dbCall.args.profile.phone

\* C17 amended: as stated, except that an update to a phone number another row
\* holds is rejected by UNIQUE ([phone]): the call throws and no row changes.
C17_UpdateOrNullOrDuplicate ==
  Finished("insertNameAndPhone") =>
    /\ Hit = {} => dbCall.result = [kind |-> "null"] /\ table = dbCall.before
    /\ \A r \in Hit :
         IF PhoneTaken
           THEN dbCall.result.kind = "threw" /\ table = dbCall.before
           ELSE UpdatedOnly(r)

\* C17 witness: a row was updated while another row was in the table.
C17_Witness ==
  /\ Finished("insertNameAndPhone")
  /\ dbCall.result.kind = "row"
  /\ dbCall.result.row.email \in Emails
  /\ \E o \in table : o.id # dbCall.args.id


\* ------------------------------------------------------------------------
\* Properties of the registration endpoints
\* ------------------------------------------------------------------------
\* A required input of the request being handled is missing: email or
\* password of a credential creation, the session's user or the phone of a
\* profile update.
MissingInput ==
  \/ /\ request.route \in {"/submit-advanced-info", "/volunteers"}
     /\ request.email \in {Undefined, ""} \/ request.password \in {Undefined, ""}
  \/ /\ request.route = "/submit-phoneVer"
     /\ session = Undefined \/ request.phone = Undefined

Answered == handler.pc = "responded"

\* "Already exists" is answered with 409.
C18_Conflict409 ==
  (Answered /\ ~MissingInput /\ handler.cause = "exists") => response.status = 409

\* A missing required input is answered, with 400.
C18_Missing400 ==
  /\ (Answered /\ MissingInput) => response.status = 400
  /\ handler.pc # "hung"

\* Every other failure is answered with 500 (a duplicate-key error with 409
\* or 500).
C18_Failure500 ==
  /\ (Answered /\ ~MissingInput /\ handler.cause = "failure") => response.status = 500
  /\ (Answered /\ ~MissingInput /\ handler.cause = "duplicate key") =>
       response.status \in {409, 500}

\* The body of a 500 response is fixed text only.
C18_GenericBody == (Answered /\ response.status = 500) => response.detail = ""

\* C18: the endpoints answer 409 to "already exists", 400 to a missing
\* required input and 500 to every other failure, and a 500 body carries
\* nothing of the error that caused it.
C18_StatusMapping ==
  C18_Conflict409 /\ C18_Missing400 /\ C18_Failure500 /\ C18_GenericBody

\* A 500 response whose body ends with the driver's message.
C18_LeakedDriverText ==
  /\ Answered /\ response.status = 500
  /\ \E e \in DriverErrors : response.detail = e.message


\* ------------------------------------------------------------------------
\* Properties of verifyEmail
\* ------------------------------------------------------------------------
\* C19: a verifyEmail call whose timer fired while its request was pending
\* throws, and throws the "timed out" error; no call that failed for another
\* reason (response not ok, network failure, body not JSON, key missing)
\* throws an error with that message; a call that has returned or thrown has
\* no timer left that could fire.
C19_TimeoutInv ==
  \A v \in Verifies :
    LET f == verifying[v] IN
      /\ f.timer = "fired" => f.aborted /\ f.pc \in {"fetch", "json", "threw"}
      /\ (f.pc = "threw" /\ f.timer = "fired") =>
           f.outcome = [name |-> "Error", message |-> "Kickbox API request timed out"]
      /\ (f.pc = "threw" /\ f.timer # "fired") =>
           /\ f.outcome.message # "Kickbox API request timed out"
           /\ f.outcome.message # ""
      /\ f.pc \in {"returned", "threw", "idle"} => f.timer # "armed"
      /\ f.pc \in {"fetch", "json"} => f.timer \in {"armed", "fired"}

\* C19: no step of a verifyEmail call changes anything but the call's own
\* frame, timer and controller.
C19_NoStoredStateStep ==
  verifying' # verifying =>
    /\ UNCHANGED <<KICKBOX_API_KEY, session, table, nextId, created, _pool,
                   _connectingPromise, nextCycle, cycles, promise, connected>>
    /\ \A v, w \in Verifies :
         (verifying'[v] # verifying[v] /\ w # v) => verifying'[w] = verifying[w]

\* C19: C19_TimeoutInv holds in every state and C19_NoStoredStateStep of
\* every step.
C19_TimeoutIsDistinct == [](C19_TimeoutInv) /\ [][C19_NoStoredStateStep]_vars

\* C19 witness: a call that timed out, next to a call that failed on a
\* response that was not ok and cleared its timer.
C19_Witness ==
  \E v, w \in Verifies :
    /\ verifying[v].pc = "threw" /\ verifying[v].timer = "fired"
    /\ verifying[v].outcome.message = "Kickbox API request timed out"
    /\ verifying[w].pc = "threw" /\ verifying[w].timer = "cleared"
    /\ verifying[w].outcome.message = "Kickbox API error 503 Service Unavailable"

\* C20: when the server name is missing or lacks the expected domain, the
\* database name is empty, or the port is not a finite number above zero,
\* lib/sql.js fails to load, the process exits without listening and nothing
\* happens afterwards, so no connect attempt is ever made; and the
\* configuration of every connect attempt has a server with the domain, a
\* non-empty database and a finite port above zero.
InvalidSettings ==
  \/ sqlModule.SQL_SERVER \in {Undefined, ""}
  \/ ~(\E i \in 1..(Len(sqlModule.SQL_SERVER) - 20) :
         SubSeq(sqlModule.SQL_SERVER, i, i + 20) = ".database.windows.net")
  \/ sqlModule.SQL_DATABASE \in {Undefined, ""}
  \/ sqlModule.SQL_PORT.kind # "finite"
  \/ sqlModule.SQL_PORT.value <= 0

NoAttemptEver ==
  /\ nextCycle = 1
  /\ callers = EmptyBag
  /\ \A c \in Cycles : cycles[c] = NoCycle

C20_SanityInv ==
  /\ (sqlModule.state # "none" /\ InvalidSettings) =>
       sqlModule.state = "failed" /\ boot = Exited
  /\ sqlModule.state # "loaded" => NoAttemptEver /\ ~boot.listening
  /\ boot.pc = "exited" => NoAttemptEver /\ ~boot.listening
  /\ \A c \in Cycles :
       cycles[c].pc = "connect" =>
         /\ cycles[c].config.server \notin {Undefined, ""}
         /\ \E i \in 1..(Len(cycles[c].config.server) - 20) :
              SubSeq(cycles[c].config.server, i, i + 20) = ".database.windows.net"
         /\ cycles[c].config.database \notin {Undefined, ""}
         /\ cycles[c].config.port.kind = "finite"
         /\ cycles[c].config.port.value > 0

C20_SanityChecksGate == []C20_SanityInv /\ [][boot.pc # "exited"]_vars

\* C20 happens: the import failed on a port that is not a number, with a good
\* server and database, and the process exited.
C20_Witness ==
  /\ sqlModule.state = "failed"
  /\ sqlModule.SQL_SERVER = "albanyregional.database.windows.net"
  /\ sqlModule.SQL_DATABASE = "volunteers"
  /\ sqlModule.SQL_PORT = NaN
  /\ boot = Exited

\* C21: in explicit-token mode a token fetch that the provider never answers
\* is ended by a timeout, so the cycle leaves its token fetch and the
\* getSqlPool calls awaiting the cycle settle.
C21_TokenFetchEnds ==
  \A c \in Cycles : (cycles[c].pc = "token") ~> (cycles[c].pc # "token")

\* C21 happens: two callers await a cycle that is suspended in its token fetch.
C21_CallersBlocked ==
  \E c \in Cycles :
    /\ cycles[c].pc = "token"
    /\ promise[c].state = "pending"
    /\ \E k \in BagToSet(callers) :
         k.pc = "awaiting" /\ k.awaits = c /\ CopiesIn(k, callers) = 2

\* C22: the manager's state, read off the in-flight marker and the stored
\* pool, moves only as the four-state machine allows: a call starts a cycle
\* from Unconnected or Failed, or from Connected when the stored pool is not
\* connected; a cycle ends in Connected by its then-handler or in Failed by its
\* catch-handler; closeSqlPool resets to Unconnected; every other step leaves
\* the state alone.  Failed is what a catch-handler leaves: no marker, and the
\* stored pool, if any, as it was.
ManagerState ==
  IF _connectingPromise # 0 THEN "Connecting"
  ELSE IF _pool # 0 THEN "Connected"
  ELSE "Unconnected"

CycleStarts == nextCycle' # nextCycle
CycleResolved(c) == cycles[c].pc = "resolved" /\ cycles'[c].pc = "done"
CycleThrew(c) == cycles[c].pc = "threw" /\ cycles'[c].pc = "done"
CloseReturns == BagCardinality(closers') < BagCardinality(closers)

C22_Transition ==
  \/ /\ CycleStarts
     /\ ManagerState \in {"Unconnected", "Connected"}
     /\ ManagerState = "Connected" => ~connected[_pool]
     /\ ManagerState' = "Connecting"
     /\ _connectingPromise' = nextCycle
  \/ \E c \in Cycles :
       /\ CycleResolved(c)
       /\ ManagerState = "Connecting" /\ _connectingPromise = c
       /\ ManagerState' = "Connected" /\ _pool' = c /\ connected[c]
  \/ \E c \in Cycles :
       /\ CycleThrew(c)
       /\ ManagerState = "Connecting" /\ _connectingPromise = c
       /\ ManagerState' # "Connecting" /\ _pool' = _pool
       /\ promise'[c].state = "rejected"
  \/ /\ CloseReturns
     /\ ManagerState # "Connecting"
     /\ ManagerState' = "Unconnected"
  \/ /\ ~CycleStarts
     /\ \A c \in Cycles : ~CycleResolved(c) /\ ~CycleThrew(c)
     /\ ManagerState' = ManagerState

C22_RefinesStateMachine == [][C22_Transition]_vars

\* C22 happens: a reconnect cycle failed while the pool that lost its
\* connection is still stored.
C22_Witness ==
  /\ nextCycle = 3
  /\ _connectingPromise = 0
  /\ _pool = 1 /\ ~connected[1]
  /\ promise[2].state = "rejected"

\* C23: the stored pool is never replaced by another pool while it is
\* connected.  A cycle is in flight only while the stored pool, if any, is not
\* connected; _pool changes only to the pool of a cycle whose then-handler
\* runs, or to null when closeSqlPool's close() has settled.
C23_NoCycleBesideHealthyPool ==
  (_connectingPromise # 0 /\ _pool # 0) => ~connected[_pool]

C23_PoolChanges ==
  _pool' # _pool =>
    \/ \E c \in Cycles :
         /\ cycles[c].pc = "resolved" /\ cycles'[c].pc = "done"
         /\ _connectingPromise = c
         /\ _pool' = c
         /\ _pool # 0 => ~connected[_pool]
    \/ /\ _pool' = 0
       /\ BagCardinality(closers') < BagCardinality(closers)

C23_NeverReplacedWhileConnected ==
  []C23_NoCycleBesideHealthyPool /\ [][C23_PoolChanges]_vars

\* C23 happens: the pool of a second cycle replaced a stored pool that had lost
\* its connection and was never closed.
C23_Witness ==
  /\ _pool = 2 /\ connected[2]
  /\ ~connected[1] /\ 1 \notin closeCalled

\* C24: a backoff wait happens only before a retry: no cycle waits after its
\* last permitted attempt, and a cycle that ended after m failed attempts
\* waited at most m - 1 times.
C24_WaitOnlyBeforeRetry ==
  \A c \in Cycles :
    /\ cycles[c].pc = "backoff" => cycles[c].attempt < maxAttempts
    /\ cycles[c].pc = "threw" => cycles[c].nWait <= cycles[c].attempt - 1

\* C24 happens: the fourth attempt failed on a transient error and the cycle
\* sits in a backoff wait that no attempt follows.
C24_WaitAfterLastAttempt ==
  \E c \in Cycles :
    /\ cycles[c].pc = "backoff"
    /\ cycles[c].attempt = maxAttempts
    /\ cycles[c].nWait = maxAttempts
    /\ cycles[c].delay = BackoffCap

\* C25: a failed attempt is followed by a backoff (the failure was classified
\* transient) exactly when the error's code, err.code or else
\* err.originalError.code, is ESOCKET, ECONNRESET, ETIMEDOUT or ETIME, or its
\* message holds "socket hang up" in any case; after every other failure,
\* one without code and without such a message included, the cycle throws.
CodeOf(e) == IF e.code \in {Undefined, ""} THEN e.ocode ELSE e.code

HangUpMessages ==
  {"socket hang up", "Socket Hang Up", "read: SOCKET HANG UP (peer)"}

C25_FailureStep ==
  \A c \in Cycles :
    (cycles[c].pc = "connect" /\ cycles'[c].pc \in {"backoff", "threw"}) =>
      LET e == cycles'[c].lastErr IN
        (cycles'[c].pc = "backoff") <=>
          \/ CodeOf(e) \in {"ESOCKET", "ECONNRESET", "ETIMEDOUT", "ETIME"}
          \/ e.message \in HangUpMessages

C25_TransientExactly == [][C25_FailureStep]_vars

\* C25 happens: the first failure was retried and the second, an error with no
\* code whose message only resembles the pattern, ended the cycle.
C25_Witness ==
  /\ cycles[1].pc = "threw"
  /\ cycles[1].attempt = 2
  /\ cycles[1].lastErr.code = Undefined
  /\ cycles[1].lastErr.ocode = Undefined
  /\ cycles[1].lastErr.message = "socket hangup"

\* C26: credential.getToken is called by buildConfig only in explicit-token
\* mode: in App Service (managed identity) and token-credential mode no cycle
\* is ever suspended in a token fetch or has made one, in any attempt, and a
\* configuration of another type than the access-token one is built without
\* a fetch.
C26_FetchOnlyInExplicitMode ==
  \A c \in Cycles :
    /\ (cycles[c].pc = "token" \/ cycles[c].nFetch > 0) =>
         (~IS_APP_SERVICE /\ SQL_FORCE_ACCESS_TOKEN)
    /\ (cycles[c].pc = "connect"
          /\ cycles[c].config.type # "azure-active-directory-access-token") =>
         cycles[c].nFetch = 0

\* C26 happens: a token-credential cycle reached its fourth connect attempt
\* without a single token fetch.
C26_Witness ==
  /\ ~IS_APP_SERVICE /\ ~SQL_FORCE_ACCESS_TOKEN
  /\ cycles[1].pc = "connect"
  /\ cycles[1].config.type = "token-credential"
  /\ cycles[1].attempt = maxAttempts
  /\ cycles[1].nConnect = maxAttempts
  /\ cycles[1].nFetch = 0

\* C27: in the token-only getSqlPool, calls that run while no pool is stored
\* start at most one connection attempt between them, and those that return
\* hold the same pool handle.
C27_OneAttemptOneHandle ==
  \A i, j \in TokenCalls :
    (i # j /\ sqlJs.calls[i].pc # "idle" /\ sqlJs.calls[j].pc # "idle"
       /\ sqlJs.calls[i].seen = 0 /\ sqlJs.calls[j].seen = 0) =>
      /\ ~(sqlJs.calls[i].pc = "connect" /\ sqlJs.calls[j].pc = "connect")
      /\ (sqlJs.calls[i].pc = "returned" /\ sqlJs.calls[j].pc = "returned") =>
           sqlJs.calls[i].got = sqlJs.calls[j].got

\* C27 happens: two calls made while nothing was stored returned two pools,
\* both connected; one is stored and nothing refers to the other.
C27_RedundantPools ==
  /\ sqlJs.calls[1] = [pc |-> "returned", seen |-> 0, got |-> 1]
  /\ sqlJs.calls[2] = [pc |-> "returned", seen |-> 0, got |-> 2]
  /\ sqlJs.connected = {1, 2}
  /\ sqlJs._pool = 1

\* C28: once closeSqlPool has resolved, and for as long as no getSqlPool call
\* has been made since, the stored pool is null: a cycle that was in flight
\* when closeSqlPool ran does not store its pool.
C28_StaysNullAfterClose == closeResolved => _pool = 0

\* C28 happens: closeSqlPool resolved, no getSqlPool call followed, and the
\* cycle that was in flight has stored its connected pool.
C28_StoredAfterClose ==
  /\ closeResolved
  /\ _pool # 0 /\ connected[_pool]
  /\ _connectingPromise = 0
  /\ cycles[_pool].pc = "done"

\* C29: no connected pool is orphaned: every pool whose connect succeeded and
\* whose then-handler has run is the stored pool or has had close() invoked
\* on it.
C29_NoOrphanedPool ==
  \A c \in Cycles :
    (connected[c] /\ cycles[c].pc # "resolved") =>
      (_pool = c \/ c \in closeCalled)

\* C29 happens: closeSqlPool has finished, nothing is stored, and a pool that
\* connected while close() was awaited is still connected and was never closed.
C29_OrphanLeft ==
  /\ _pool = 0
  /\ closers = EmptyBag
  /\ \E c \in Cycles :
       /\ connected[c]
       /\ cycles[c].pc = "done"
       /\ c \notin closeCalled
       /\ closeCalled # {}

\* C30: when every token fetch, every pool.connect() and every backoff timer
\* completes, every getSqlPool call that was handed the promise of a cycle is
\* eventually resumed, fulfilled with a pool or rejected with an error, and
\* the cycle makes at most maxAttempts = 4 attempts to get there: at any
\* time, a moment comes when no call is left waiting on the promise of the
\* cycle.  (A call answered from the stored pool is settled when it returns.)
Awaited(c) ==
  \E k \in BagToSet(callers) : k.pc = "awaiting" /\ k.awaits = c

C30_Bounded ==
  /\ \A c \in Cycles :
       cycles[c].attempt <= maxAttempts /\ cycles[c].nConnect <= maxAttempts
  /\ \A k \in BagToSet(callers) :
       k.pc = "done" => k.got.state \in {"fulfilled", "rejected"}

C30_EveryCallSettles ==
  /\ []C30_Bounded
  /\ \A c \in Cycles : []<>(~Awaited(c))

\* C30 happens: of two calls that shared a cycle which failed four times with
\* a transient error, one has been resumed with the rejection of the fourth
\* attempt and the other is about to be.
C30_Witness ==
  \E k, j \in BagToSet(callers) :
    /\ k.pc = "done" /\ k.awaits # 0
    /\ k.got.state = "rejected" /\ k.got.err.att = maxAttempts
    /\ j.pc = "awaiting" /\ j.awaits = k.awaits
    /\ promise[j.awaits].state = "rejected"

\* C31: the in-flight marker is non-null exactly when a cycle is running: it
\* names the one cycle that has started and whose then- or catch-handler has
\* not run yet, and it is null when there is none.
C31_MarkerIffCycleRunning ==
  /\ _connectingPromise \in 0..MaxCycles
  /\ \A c \in Cycles :
       (_connectingPromise = c) <=> (cycles[c].pc \notin {"none", "done"})

\* C31 happens: the first cycle ended in failure and its marker was cleared;
\* a second cycle is waiting in its backoff and the marker names it.
C31_Witness ==
  /\ MaxCycles >= 2
  /\ cycles[1].pc = "done" /\ _pool = 0
  /\ cycles[2].pc = "backoff"
  /\ _connectingPromise = 2

\* C32: of two insertEmailPass calls with the same email that both found the
\* table empty and have both returned, exactly one returned the created row
\* and the other returned null, and the table holds one row with that email.
C32_RaceLoserGetsNull ==
  \A i, j \in Racers :
    ( /\ i # j
      /\ race[i].pc = "returned" /\ race[j].pc = "returned"
      /\ race[i].args.email = race[j].args.email
      /\ race[i].before = {} /\ race[j].before = {} )
    => /\ Cardinality({r \in table : r.email = race[i].args.email}) = 1
       /\ {race[i].result.kind, race[j].result.kind} = {"row", "null"}

\* C32 happens: both calls passed the guard before either inserted; one
\* created the row and the other was thrown error 2627.
C32_LoserThrows ==
  \E i, j \in Racers :
    /\ i # j
    /\ race[i].pc = "returned" /\ race[j].pc = "returned"
    /\ race[i].args.email = race[j].args.email
    /\ race[i].before = {} /\ race[j].before = {}
    /\ race[i].result.kind = "row"
    /\ race[j].result = ThrownResult
    /\ Cardinality(table) = 1

\* C33: lib/sql.js is loaded, getSqlPool is called and the server listens only
\* after loadSecrets has stored the SQL settings in process.env; when
\* loadSecrets fails (its last round threw) the process goes straight to
\* process.exit(1), with the module not loaded, no connect attempt made and
\* the server not listening, and nothing happens after the exit.
SecretsStored ==
  processEnv.AZSQLServer # Undefined /\ processEnv.AZSQLDB # Undefined

C33_Inv ==
  /\ (sqlModule.state # "none" \/ nextCycle # 1 \/ callers # EmptyBag \/ boot.listening)
       => SecretsStored
  /\ boot.pc \in {"loadSecrets", "secretsBackoff"} => ~SecretsStored
  /\ (boot.pc = "exited" /\ ~SecretsStored) =>
       /\ sqlModule.state = "none"
       /\ nextCycle = 1 /\ callers = EmptyBag
       /\ \A c \in Cycles : cycles[c].pc = "none"
       /\ ~boot.listening

C33_Step ==
  /\ boot.pc # "exited"
  /\ (boot.pc \in {"loadSecrets", "secretsBackoff"} /\ ~SecretsStored') =>
       (boot'.pc \in {"loadSecrets", "secretsBackoff", "exited"} /\ ~boot'.listening)

C33_SecretsFirst == []C33_Inv /\ [][C33_Step]_vars

\* C33 happens: loadSecrets failed and the process exited with nothing loaded,
\* nothing connected and nothing listening.
C33_Witness ==
  /\ boot.pc = "exited" /\ ~boot.listening
  /\ ~SecretsStored
  /\ sqlModule.state = "none"
  /\ nextCycle = 1

\* C34: loadSecrets makes at most retries = 5 rounds.  After the failure of
\* round a < retries it waits min(2000 * a, 10000) ms and runs round a + 1;
\* the failure of round number retries is rethrown at once, without a wait
\* (the startup function exits); a round that fetched every required secret
\* makes loadSecrets return at that round.
C34_Delay(a) == IF 2000 * a < 10000 THEN 2000 * a ELSE 10000

C34_Inv ==
  /\ boot.attempt \in 0..4
  /\ boot.pc = "secretsBackoff" =>
       boot.attempt >= 1 /\ boot.delay = C34_Delay(boot.attempt)
  /\ boot.pc # "secretsBackoff" => boot.delay = 0

C34_Step ==
  /\ (boot.pc = "loadSecrets" /\ processEnv' = processEnv) =>
       IF boot.attempt + 1 < 5
         THEN /\ boot'.pc = "secretsBackoff"
              /\ boot'.attempt = boot.attempt + 1
              /\ boot'.delay = C34_Delay(boot.attempt + 1)
         ELSE boot'.pc = "exited"
  /\ (boot.pc = "loadSecrets" /\ processEnv' # processEnv) =>
       boot'.pc = "initTwilio"
  /\ boot.pc = "secretsBackoff" =>
       boot'.pc = "loadSecrets" /\ boot'.attempt = boot.attempt

C34_BoundedRounds == []C34_Inv /\ [][C34_Step]_vars

\* C34 happens: four rounds have failed and loadSecrets waits 8000 ms before
\* its fifth and last round.
C34_Witness ==
  boot.pc = "secretsBackoff" /\ boot.attempt = 4 /\ boot.delay = 8000

\* C35: in config/azureConfig.js a getSqlPool call tries SQL authentication
\* only after its AAD path failed (the token fetch failed, or 3 sql.connect()
\* calls with the AAD configuration failed); it makes at most 3 sql.connect()
\* calls per authentication mode; and when both paths have failed it throws
\* without storing a pool, so that a call made while none is stored starts
\* over with getConfig().
C35_Inv ==
  \A i \in 1..MaxKvCalls :
    LET f == kv.calls[i] IN
      /\ f.nAad <= 3 /\ f.nSql <= 3 /\ f.nAad + f.nSql <= 6
      /\ f.nSql > 0 => (f.tokenFailed /\ f.nAad = 0) \/ (~f.tokenFailed /\ f.nAad = 3)
      /\ f.mode = "sql" <=> f.nSql > 0
      /\ (f.pc = "threw" /\ f.mode # "none") => f.mode = "sql" /\ f.nSql = 3

C35_Step ==
  \A i \in 1..MaxKvCalls :
    /\ (kv.calls[i].pc # "threw" /\ kv'.calls[i].pc = "threw") => kv'.pool = kv.pool
    /\ (kv.calls[i].pc = "idle" /\ kv'.calls[i].pc # "idle" /\ kv.pool = 0) =>
         /\ kv'.calls[i].pc = "config"
         /\ kv'.calls[i].nAad = 0 /\ kv'.calls[i].nSql = 0

C35_FallbackAfterAad == []C35_Inv /\ [][C35_Step]_vars

\* C35 happens: a call has thrown after three failed connects with AAD and
\* three with SQL authentication, and no pool is stored.
C35_Witness ==
  \E i \in 1..MaxKvCalls :
    /\ kv.calls[i].pc = "threw"
    /\ kv.calls[i].nAad = 3 /\ kv.calls[i].nSql = 3
    /\ kv.pool = 0

\* C36: req.session.userId of a session is set only when the credential
\* insert of a request of that session returned a created row, and to the id
\* of that row, so no two sessions hold the same userId; the UPDATE of
\* /submit-phoneVer changes only the row whose id is the userId of the session
\* of the request; a request of a session without userId is answered 400 and
\* runs no statement; and no UPDATE runs for a request whose duplicate check
\* reported a record.
C36_Inv ==
  /\ \A b \in 1..MaxSessions :
       LET f == web.reqs[b] IN
         /\ f.status = 400 => f.stmts = 0 /\ ~f.updated
         /\ f.dup => ~f.updated /\ f.pc = "responded" /\ f.stmts = 1
         /\ (f.route = "/submit-phoneVer" /\ f.stmts > 0) =>
              f.userId # 0 /\ f.userId = web.userId[b]
         /\ web.userId[b] # 0 => \E r \in table : r.id = web.userId[b]
  /\ \A b, d \in 1..MaxSessions :
       (b # d /\ web.userId[b] # 0) => web.userId[b] # web.userId[d]

C36_Step ==
  /\ \A b \in 1..MaxSessions :
       /\ web'.userId[b] # web.userId[b] =>
            /\ web.reqs[b].route = "/submit-advanced-info"
            /\ web.reqs[b].settled.kind = "result"
            /\ web.reqs[b].settled.hasRecordset
            /\ web'.userId[b] = web.reqs[b].settled.recordset[1].id
            /\ web.reqs[b].settled.recordset[1].email = web.reqs[b].body.email
       /\ ( /\ web.reqs[b].pc = "idle"
            /\ web'.reqs[b].route = "/submit-phoneVer"
            /\ web.userId[b] = 0 )
            => web'.reqs[b].status = 400 /\ web'.reqs[b].pc = "responded"
  /\ \A r \in table :
       r \notin table' =>
         \E b \in 1..MaxSessions :
           /\ web.reqs[b].route = "/submit-phoneVer"
           /\ web.reqs[b].pc = "insertNameAndPhone"
           /\ web.userId[b] = r.id
           /\ ~web.reqs[b].dup
           /\ \A q \in table \ {r} : q \in table'

C36_OwnRowOnly == []C36_Inv /\ [][C36_Step]_vars

\* C36 happens: two sessions have registered, one has updated its own row, and
\* a row of the other session is untouched.
C36_Witness ==
  \E b, d \in 1..MaxSessions :
    /\ b # d
    /\ web.userId[b] # 0 /\ web.userId[d] # 0
    /\ web.reqs[b].route = "/submit-phoneVer" /\ web.reqs[b].status = 200
    /\ web.reqs[b].updated /\ ~web.reqs[b].dup
    /\ \E r \in table : r.id = web.userId[b] /\ r.phone = "15185550101"
    /\ \E r \in table : r.id = web.userId[d] /\ r.phone = Null

\* C37: a /validate-phone response whose requested value differs from the
\* phone field's current value changes neither phoneDeliverable, phonesMatch
\* nor whether the confirm field is enabled.
C37_StaleResponseIgnored ==
  [][\A r \in 1..MaxFetches :
       (/\ form.loaded
        /\ form.fetches[r].pc = "json"
        /\ form'.fetches[r].pc = "none"
        /\ form.fetches[r].requestedPhone # Trim(form.phone))
       => /\ form'.phoneDeliverable = form.phoneDeliverable
          /\ form'.phonesMatch = form.phonesMatch
          /\ form'.confirmEnabled = form.confirmEnabled]_vars

\* The response to an earlier value was dropped while the gates the response
\* to the current value had opened stay open.
C37_Witness ==
  /\ form.loaded
  /\ form.ignored
  /\ form.phoneDeliverable
  /\ form.phonesMatch
  /\ form.confirmEnabled

\* C38: a value posted to /submit-phoneVer is one /validate-phone answered
\* valid for (phoneDeliverable is never true for a value the server has not
\* validated, so neither an enabled submit button nor a submission carries
\* such a value).
C38_PostedValueWasValidated ==
  (form.loaded /\ form.posted.sent) => form.posted.phone \in form.validated

\* The submit button is enabled for a value whose validation has not even
\* been requested: the debounce timer for it is still pending.
C38_SubmitEnabledUnvalidated ==
  /\ form.loaded
  /\ form.submitEnabled
  /\ form.phoneDeliverable
  /\ form.debounceId.pending
  /\ Trim(form.phone) \notin form.validated

\* C39: at most one /validate-phone request that was not aborted is
\* outstanding at any time.
C39_AtMostOneOutstanding ==
  form.loaded =>
  Cardinality({r \in 1..MaxFetches :
                 form.fetches[r].pc \in {"fetch", "json"} /\ ~form.fetches[r].aborted}) <= 1

\* Two requests are outstanding, neither aborted, and inflightAbort holds the
\* controller of the newer one only.
C39_TwoOutstanding ==
  \E r, q \in 1..MaxFetches :
    /\ r # q
    /\ form.loaded
    /\ form.fetches[r].pc = "fetch" /\ ~form.fetches[r].aborted
    /\ form.fetches[q].pc = "fetch" /\ ~form.fetches[q].aborted
    /\ form.inflightAbort = q

====
